---- MODULE Spec2Model ----
(***************************************************************************)
(* State-machine model of the Telegram voice/knowledge bot: the SQLite     *)
(* knowledge store (database.py), the two AIService variants               *)
(* (ai_service.py: provider-backed, src/ai_service.py: rule-based) and the *)
(* message handlers of the two front-ends (telegram_bot.py, src/bot.py).   *)
(*                                                                         *)
(* A Python str is a sequence of one-character strings, so that LIKE       *)
(* matching, substring tests and string formatting are computed character  *)
(* by character.  Python None is the one-element sequence <<"None">> for   *)
(* text-valued positions and the empty sequence for an optional integer    *)
(* (NoUser); a present integer n is <<n>>.                                  *)
(***************************************************************************)
EXTENDS Integers, Sequences, FiniteSets, TLC

VARIABLES
    knowledge,      \* rows of table ai_knowledge, in rowid order
    conversations,  \* rows of table conversation_history, in rowid order
    clock,          \* CURRENT_TIMESTAMP, in whole seconds
    tmpfiles,       \* temporary audio files that exist on disk
    user_states,    \* src/bot.py: self.user_states
    requests,       \* number of handler runs so far (names the temporary files)
    probe,          \* the query and limit the store is searched with
    last            \* what the last operation was given, did and returned

vars == <<knowledge, conversations, clock, tmpfiles, user_states, requests, probe, last>>

----------------------------------------------------------------------------
\* Bounds of the model.

MaxKnowledge == 2
MaxConversations == 2
MaxClock == 1
MaxRequests == 3
MaxTitled == 6
MaxPerSecond == 2
MaxDigested == 4

----------------------------------------------------------------------------
\* Text.

None == <<"None">>

Lower(c) ==
    CASE c = "A" -> "a" [] c = "B" -> "b" [] c = "C" -> "c" [] c = "D" -> "d" []
         c = "E" -> "e" [] c = "F" -> "f" [] c = "G" -> "g" [] c = "H" -> "h" []
         c = "I" -> "i" [] c = "J" -> "j" [] c = "K" -> "k" [] c = "L" -> "l" []
         c = "M" -> "m" [] c = "N" -> "n" [] c = "O" -> "o" [] c = "P" -> "p" []
         c = "Q" -> "q" [] c = "R" -> "r" [] c = "S" -> "s" [] c = "T" -> "t" []
         c = "U" -> "u" [] c = "V" -> "v" [] c = "W" -> "w" [] c = "X" -> "x" []
         c = "Y" -> "y" [] c = "Z" -> "z" [] OTHER -> c

Min(a, b) == IF a < b THEN a ELSE b

SeqsUpTo(S, n) == UNION {[1..k -> S] : k \in 0..n}

\* Python: sub in s
Contains(s, sub) ==
    \E i \in 0..(Len(s) - Len(sub)) : SubSeq(s, i + 1, i + Len(sub)) = sub

\* Python: bool(x) for a str or None
Truthy(x) == x /= None /\ x /= <<>>

RECURSIVE Concat(_)
Concat(parts) ==
    IF parts = <<>> THEN <<>> ELSE Head(parts) \o Concat(Tail(parts))

\* Python: sep.join(items)
RECURSIVE Join(_, _)
Join(sep, items) ==
    IF items = <<>> THEN <<>>
    ELSE IF Len(items) = 1 THEN items[1]
    ELSE items[1] \o sep \o Join(sep, Tail(items))

\* SQLite's LIKE operator (no ESCAPE clause): "%" matches any run of
\* characters, "_" any one character, any other character matches itself
\* with ASCII letters compared case-insensitively.
RECURSIVE LikeFrom(_, _, _, _)
LikeFrom(pat, i, s, j) ==
    IF i > Len(pat) THEN j > Len(s)
    ELSE IF pat[i] = "%" THEN \E k \in j..(Len(s) + 1) : LikeFrom(pat, i + 1, s, k)
    ELSE IF j > Len(s) THEN FALSE
    ELSE IF pat[i] = "_" THEN LikeFrom(pat, i + 1, s, j + 1)
    ELSE Lower(pat[i]) = Lower(s[j]) /\ LikeFrom(pat, i + 1, s, j + 1)

Like(s, pat) == LikeFrom(pat, 1, s, 1)

\* json.dumps of a list of str: ["t1", "t2"], with " and \ escaped
\* mutant of JsonEscape: nothing is escaped
JsonEscape_Raw(t) == t

RECURSIVE JsonEscape(_)
JsonEscape(t) ==
    IF t = <<>> THEN <<>>
    ELSE IF Head(t) \in {"\"", "\\"} THEN <<"\\", Head(t)>> \o JsonEscape(Tail(t))
    ELSE <<Head(t)>> \o JsonEscape(Tail(t))

JsonDumps(tags) ==
    <<"[">> \o Join(<<",", " ">>, [i \in 1..Len(tags) |-> <<"\"">> \o JsonEscape(tags[i]) \o <<"\"">>])
            \o <<"]">>

\* json.loads of the text json.dumps wrote: the strings between the quotes
RECURSIVE JsonScan(_, _, _, _, _)
JsonScan(s, i, inStr, cur, acc) ==
    IF i > Len(s) THEN acc
    ELSE IF inStr
         THEN IF s[i] = "\\" THEN JsonScan(s, i + 2, TRUE, Append(cur, s[i + 1]), acc)
              ELSE IF s[i] = "\"" THEN JsonScan(s, i + 1, FALSE, <<>>, Append(acc, cur))
              ELSE JsonScan(s, i + 1, TRUE, Append(cur, s[i]), acc)
         ELSE IF s[i] = "\"" THEN JsonScan(s, i + 1, TRUE, <<>>, acc)
              ELSE JsonScan(s, i + 1, FALSE, cur, acc)

JsonLoads(s) == JsonScan(s, 1, FALSE, <<>>, <<>>)

----------------------------------------------------------------------------
\* String literals of the source.

RelevantHeader ==
    <<"R","e","l","e","v","a","n","t"," ","A","I"," ","k","n","o","w","l","e","d","g","e",":",
      "\n","\n">>
TitleLabel ==
    <<"T","i","t","l","e",":"," ">>
CategoryLabel ==
    <<"C","a","t","e","g","o","r","y",":"," ">>
ContentLabel ==
    <<"C","o","n","t","e","n","t",":"," ">>
TagsLabel ==
    <<"T","a","g","s",":"," ">>
NoneText ==
    <<"N","o","n","e">>
CommaSpace ==
    <<","," ">>
Newline ==
    <<"\n">>
ContextPrefix ==
    <<"C","o","n","t","e","x","t"," ","f","r","o","m"," ","k","n","o","w","l","e","d","g","e",
      " ","b","a","s","e",":","\n">>
QuestionSep ==
    <<"\n","\n","U","s","e","r"," ","q","u","e","s","t","i","o","n",":"," ">>
QuestionPrefix ==
    <<"U","s","e","r"," ","q","u","e","s","t","i","o","n",":"," ">>
ApologyPrefix ==
    <<"I"," ","a","p","o","l","o","g","i","z","e",","," ","b","u","t"," ","I"," ","e","n","c",
      "o","u","n","t","e","r","e","d"," ","a","n"," ","e","r","r","o","r"," ","w","h","i","l",
      "e"," ","p","r","o","c","e","s","s","i","n","g"," ","y","o","u","r"," ","r","e","q","u",
      "e","s","t",":"," ">>
TitleRL ==
    <<"R","e","i","n","f","o","r","c","e","m","e","n","t"," ","L","e","a","r","n","i","n","g">>
ContentRL ==
    <<"A","g","e","n","t","s"," ","l","e","a","r","n"," ","f","r","o","m"," ","r","e","w","a",
      "r","d","s",".">>
QueryRL ==
    <<"W","h","a","t"," ","i","s"," ","r","e","i","n","f","o","r","c","e","m","e","n","t"," ",
      "l","e","a","r","n","i","n","g","?">>
HelloWord ==
    <<"h","e","l","l","o">>
HiWord ==
    <<"h","i">>
HowAreYouPhrase ==
    <<"h","o","w"," ","a","r","e"," ","y","o","u">>
WhatCanYouDoPhrase ==
    <<"w","h","a","t"," ","c","a","n"," ","y","o","u"," ","d","o">>
ThankYouPhrase ==
    <<"t","h","a","n","k"," ","y","o","u">>
ThanksWord ==
    <<"t","h","a","n","k","s">>
ByeWord ==
    <<"b","y","e">>
GoodbyeWord ==
    <<"g","o","o","d","b","y","e">>
GreetingReply ==
    <<"H","e","l","l","o","!"," ","I","'","m"," ","y","o","u","r"," ","A","I"," ","a","s","s",
      "i","s","t","a","n","t","."," ","H","o","w"," ","c","a","n"," ","I"," ","h","e","l","p",
      " ","y","o","u"," ","t","o","d","a","y","?">>
HowAreYouReply ==
    <<"I","'","m"," ","d","o","i","n","g"," ","g","r","e","a","t","!"," ","T","h","a","n","k",
      "s"," ","f","o","r"," ","a","s","k","i","n","g","."," ","H","o","w"," ","c","a","n"," ",
      "I"," ","a","s","s","i","s","t"," ","y","o","u","?">>
CapabilityReply ==
    <<"I"," ","c","a","n"," ","h","e","l","p"," ","y","o","u"," ","w","i","t","h"," ","v","a",
      "r","i","o","u","s"," ","t","a","s","k","s",","," ","a","n","s","w","e","r"," ","q","u",
      "e","s","t","i","o","n","s",","," ","a","n","d"," ","c","o","n","v","e","r","t"," ","v",
      "o","i","c","e"," ","m","e","s","s","a","g","e","s","."," ","J","u","s","t"," ","l","e",
      "t"," ","m","e"," ","k","n","o","w"," ","w","h","a","t"," ","y","o","u"," ","n","e","e",
      "d","!">>
ThanksReply ==
    <<"Y","o","u","'","r","e"," ","w","e","l","c","o","m","e","!"," ","I","'","m"," ","h","a",
      "p","p","y"," ","t","o"," ","h","e","l","p",".">>
ByeReply ==
    <<"G","o","o","d","b","y","e","!"," ","H","a","v","e"," ","a"," ","g","r","e","a","t"," ",
      "d","a","y","!">>
EchoPrefix ==
    <<"I"," ","r","e","c","e","i","v","e","d"," ","y","o","u","r"," ","m","e","s","s","a","g",
      "e",":"," ","'">>
EchoSuffix ==
    <<"'","."," ","T","h","i","s"," ","i","s"," ","a"," ","s","i","m","p","l","e"," ","r","e",
      "s","p","o","n","s","e","."," ","Y","o","u"," ","c","a","n"," ","e","n","h","a","n","c",
      "e"," ","t","h","i","s"," ","w","i","t","h"," ","m","o","r","e"," ","s","o","p","h","i",
      "s","t","i","c","a","t","e","d"," ","l","o","g","i","c",".">>
ConvertedMarker ==
    <<"V","o","i","c","e"," ","c","o","n","v","e","r","t","e","d"," ","s","u","c","c","e","s",
      "s","f","u","l","l","y">>
FallbackMarker ==
    <<"V","o","i","c","e"," ","c","o","n","v","e","r","t","e","d"," ","s","u","c","c","e","s",
      "s","f","u","l","l","y"," ","(","f","a","l","l","b","a","c","k"," ","m","e","t","h","o",
      "d",")">>
IntegrityErrorText ==
    <<"N","O","T"," ","N","U","L","L"," ","c","o","n","s","t","r","a","i","n","t"," ","f","a",
      "i","l","e","d",":"," ","c","o","n","v","e","r","s","a","t","i","o","n","_","h","i","s",
      "t","o","r","y",".","r","e","s","p","o","n","s","e">>

\* Python: f"{x}" of a str or None
Fmt(x) == IF x = None THEN NoneText ELSE x

----------------------------------------------------------------------------
\* The store (database.py).

NoTags == <<None>>      \* tags=None
NoUser == <<>>          \* user_id=None

\* ORDER BY <ts> DESC: every order of the rows S in which the column does not
\* increase; SQL leaves the order of rows with equal values open.
RECURSIVE DescOrders(_, _)
DescOrders(S, ts) ==
    IF S = {} THEN {<<>>}
    ELSE UNION { {<<x>> \o o : o \in DescOrders(S \ {x}, ts)}
                 : x \in {y \in S : \A z \in S : ts[y] >= ts[z]} }

\* mutant of SqlLimit: one row fewer than asked for
SqlLimit_OneLess(rows, n) == IF n <= 0 THEN rows ELSE SubSeq(rows, 1, Min(n - 1, Len(rows)))

\* LIMIT n: a negative n means no limit
SqlLimit(rows, n) == IF n < 0 THEN rows ELSE SubSeq(rows, 1, Min(n, Len(rows)))

\* add_knowledge: the row INSERTed
KnowledgeRow(id, now, title, content, category, tags) ==
    [id |-> id, title |-> title, content |-> content, category |-> category,
     tags |-> IF tags = NoTags \/ tags = <<>> THEN None ELSE JsonDumps(tags),
     created_at |-> now, updated_at |-> now]

\* search_knowledge: WHERE title LIKE '%query%' OR content LIKE '%query%'
LikePattern(query) == <<"%">> \o query \o <<"%">>

\* mutant of RowMatches: only the title is searched
RowMatchesTitleOnly(row, query) == Like(row.title, LikePattern(query))

RowMatches(row, query) ==
    Like(row.title, LikePattern(query)) \/ Like(row.content, LikePattern(query))

\* search_knowledge: the dict built from one row
KnowledgeDict(row) ==
    [id |-> row.id, title |-> row.title, content |-> row.content, category |-> row.category,
     tags |-> IF Truthy(row.tags) THEN JsonLoads(row.tags) ELSE <<>>]

\* search_knowledge(query, limit): the results the query can return
search_knowledge(rows, query, limit) ==
    LET S == {i \in 1..Len(rows) : RowMatches(rows[i], query)}
        ts == [i \in S |-> rows[i].updated_at]
    IN  {[k \in 1..Len(SqlLimit(o, limit)) |-> KnowledgeDict(rows[o[k]])] : o \in DescOrders(S, ts)}

\* get_all_knowledge(): the results the query can return
get_all_knowledge(rows) ==
    LET S == 1..Len(rows)
        ts == [i \in S |-> rows[i].updated_at]
    IN  {[k \in 1..Len(o) |->
            [id |-> rows[o[k]].id, title |-> rows[o[k]].title, content |-> rows[o[k]].content,
             category |-> rows[o[k]].category,
             tags |-> IF Truthy(rows[o[k]].tags) THEN JsonLoads(rows[o[k]].tags) ELSE <<>>,
             created_at |-> rows[o[k]].created_at, updated_at |-> rows[o[k]].updated_at]]
         : o \in DescOrders(S, ts)}

\* mutant of save_conversation: the columns accept NULL, the row is written
save_conversation_Nullable(rows, now, user_id, message, response) ==
    [rows |-> Append(rows, [id |-> Len(rows) + 1,
                            user_id |-> IF user_id = NoUser THEN 0 ELSE user_id[1],
                            message |-> message, response |-> response, timestamp |-> now]),
     raised |-> FALSE]

\* save_conversation(user_id, message, response): the three columns are NOT
\* NULL, so a None raises sqlite3.IntegrityError and no row is written.
save_conversation(rows, now, user_id, message, response) ==
    IF user_id = NoUser \/ message = None \/ response = None
    THEN [rows |-> rows, raised |-> TRUE]
    ELSE [rows |-> Append(rows, [id |-> Len(rows) + 1, user_id |-> user_id[1],
                                 message |-> message, response |-> response,
                                 timestamp |-> now]),
          raised |-> FALSE]

\* get_user_conversation_history(user_id, limit): the results the query can return
get_user_conversation_history(rows, user_id, limit) ==
    LET S == {i \in 1..Len(rows) : user_id /= NoUser /\ rows[i].user_id = user_id[1]}
        ts == [i \in S |-> rows[i].timestamp]
    IN  {[k \in 1..Len(SqlLimit(o, limit)) |->
            [message |-> rows[o[k]].message, response |-> rows[o[k]].response,
             timestamp |-> rows[o[k]].timestamp]]
         : o \in DescOrders(S, ts)}

----------------------------------------------------------------------------
\* Inputs.

Queries ==
    {<<>>, <<"a">>, <<"%">>, <<"_">>, <<"A","B">>, <<"b","a">>, <<"a","%","b">>, <<"_","_","_">>}

Limits == {-1, 0, 1, 3, 5}

KnowledgeInputs ==
    { [title |-> <<"A","b">>, content |-> <<"b","a">>, category |-> None, tags |-> NoTags],
      [title |-> TitleRL, content |-> ContentRL, category |-> <<"R","L">>,
       tags |-> << <<"r","l">>, <<"a","i">> >>] }

UserIds == {1, 2}

UserArgs == {NoUser} \cup {<<u>> : u \in UserIds}

\* the user_id arguments of the direct calls of AIService
Callers == {NoUser, <<1>>}

Exchanges ==
    { [message |-> <<"a">>, response |-> <<"x">>],
      [message |-> <<"b">>, response |-> <<"y">>] }

----------------------------------------------------------------------------
\* Initial state: a fresh database file, no temporary file, no session.

Init ==
    /\ knowledge = <<>>
    /\ conversations = <<>>
    /\ clock = 0
    /\ tmpfiles = {}
    /\ user_states = <<>>
    /\ requests = 0
    /\ probe = [query |-> <<>>, limit |-> 5]
    /\ last = [op |-> "init"]

\* The same, with the query and limit of the searches drawn from the inputs.
InitKnowledge ==
    /\ knowledge = <<>>
    /\ conversations = <<>>
    /\ clock = 0
    /\ tmpfiles = {}
    /\ user_states = <<>>
    /\ requests = 0
    /\ probe \in [query : Queries, limit : Limits]
    /\ last = [op |-> "init"]

\* CURRENT_TIMESTAMP moves to the next second.
Tick ==
    /\ clock < MaxClock
    /\ clock' = clock + 1
    /\ UNCHANGED <<knowledge, conversations, tmpfiles, user_states, requests, probe, last>>

----------------------------------------------------------------------------
\* Operations of the store, called directly.

AddKnowledge ==
    \E e \in KnowledgeInputs :
        /\ Len(knowledge) < MaxKnowledge
        /\ knowledge' = Append(knowledge,
               KnowledgeRow(Len(knowledge) + 1, clock, e.title, e.content, e.category, e.tags))
        /\ last' = [op |-> "add_knowledge", title |-> e.title, content |-> e.content,
                    category |-> e.category, tags |-> e.tags, id |-> Len(knowledge) + 1]
        /\ UNCHANGED <<conversations, clock, tmpfiles, user_states, requests, probe>>

SearchKnowledge ==
    \E res \in search_knowledge(knowledge, probe.query, probe.limit) :
        /\ last' = [op |-> "search_knowledge", query |-> probe.query, limit |-> probe.limit,
                    result |-> res]
        /\ UNCHANGED <<knowledge, conversations, clock, tmpfiles, user_states, requests, probe>>

GetAllKnowledge ==
    \E res \in get_all_knowledge(knowledge) :
        /\ last' = [op |-> "get_all_knowledge", result |-> res]
        /\ UNCHANGED <<knowledge, conversations, clock, tmpfiles, user_states, requests, probe>>

NextKnowledge == Tick \/ AddKnowledge \/ SearchKnowledge \/ GetAllKnowledge

SpecKnowledge == InitKnowledge /\ [][NextKnowledge]_vars

----------------------------------------------------------------------------
\* C1

ResultIds(res) == {res[k].id : k \in 1..Len(res)}

Searched == last.op = "search_knowledge"

\* The pieces of q between its "%" characters.
RECURSIVE SplitPercent(_, _)
SplitPercent(q, cur) ==
    IF q = <<>> THEN (IF cur = <<>> THEN <<>> ELSE <<cur>>)
    ELSE IF Head(q) = "%" THEN (IF cur = <<>> THEN <<>> ELSE <<cur>>) \o SplitPercent(Tail(q), <<>>)
    ELSE SplitPercent(Tail(q), Append(cur, Head(q)))

\* piece occurs in s at position i: letters compared ASCII-case-insensitively,
\* "_" standing for any one character
PieceAt(piece, s, i) ==
    /\ i + Len(piece) - 1 <= Len(s)
    /\ \A k \in 1..Len(piece) : piece[k] = "_" \/ Lower(piece[k]) = Lower(s[i + k - 1])

\* the pieces occur in s one after the other, without overlap, from position j on
RECURSIVE PiecesOccur(_, _, _)
PiecesOccur(pieces, s, j) ==
    \/ pieces = <<>>
    \/ /\ pieces /= <<>>
       /\ \E i \in j..Len(s) :
            PieceAt(Head(pieces), s, i) /\ PiecesOccur(Tail(pieces), s, i + Len(Head(pieces)))

OccursFolded(q, s) == PiecesOccur(SplitPercent(q, <<>>), s, 1)

\* C1 (as amended): with a limit that holds every row, a stored entry is in the
\* result of search_knowledge(q, limit) iff the pieces of q between its "%"
\* characters occur in order in the title, or in the content, comparing ASCII
\* letters case-insensitively and letting "_" stand for any one character.
FoldedMatches(q) ==
    {i \in 1..Len(knowledge) :
        OccursFolded(q, knowledge[i].title) \/ OccursFolded(q, knowledge[i].content)}

C1_SearchIsFoldedWildcardMatch ==
    (Searched /\ last.limit >= Cardinality(FoldedMatches(last.query))) =>
        \A i \in 1..Len(knowledge) :
            knowledge[i].id \in ResultIds(last.result) <=> i \in FoldedMatches(last.query)

\* C1 (as claimed): ... iff q is a case-sensitive substring of title or content.
SubstringMatches(q) ==
    {i \in 1..Len(knowledge) :
        Contains(knowledge[i].title, q) \/ Contains(knowledge[i].content, q)}

C1_SearchIsCaseSensitiveSubstring ==
    (Searched /\ last.limit >= Cardinality(SubstringMatches(last.query))) =>
        \A i \in 1..Len(knowledge) :
            knowledge[i].id \in ResultIds(last.result) <=> i \in SubstringMatches(last.query)

\* C1 witness: a search for "AB" returned the entry titled "Ab" (in which "AB"
\* occurs only with another letter case) and not every stored entry.
C1_Witness ==
    /\ Searched
    /\ last.limit >= Cardinality(FoldedMatches(last.query))
    /\ last.query = <<"A","B">>
    /\ \E i \in 1..Len(knowledge) :
          /\ knowledge[i].title = <<"A","b">>
          /\ knowledge[i].id \in ResultIds(last.result)
    /\ \E i \in 1..Len(knowledge) : knowledge[i].id \notin ResultIds(last.result)

----------------------------------------------------------------------------
\* Operations of the conversation log, called directly.

SaveConversation ==
    \E u \in UserArgs, x \in Exchanges :
        LET r == save_conversation(conversations, clock, u, x.message, x.response)
        IN  /\ Len(conversations) < MaxConversations
            /\ conversations' = r.rows
            /\ last' = [op |-> "save_conversation", user_id |-> u, message |-> x.message,
                        response |-> x.response, raised |-> r.raised]
            /\ UNCHANGED <<knowledge, clock, tmpfiles, user_states, requests, probe>>

GetHistory ==
    \E u \in UserArgs, limit \in Limits :
        \E res \in get_user_conversation_history(conversations, u, limit) :
            /\ last' = [op |-> "get_user_conversation_history", user_id |-> u, limit |-> limit,
                        result |-> res]
            /\ UNCHANGED <<knowledge, conversations, clock, tmpfiles, user_states, requests, probe>>

NextHistory == Tick \/ SaveConversation \/ GetHistory

SpecHistory == Init /\ [][NextHistory]_vars

----------------------------------------------------------------------------
\* C6

\* C6 (as amended): save_conversation with user_id None writes no record: it
\* raises (the column is NOT NULL) and the history of every user is unchanged.
C6_SaveWithoutUserRaisesAndWritesNothing ==
    [][ (last'.op = "save_conversation" /\ last'.user_id = NoUser)
            => (last'.raised /\ conversations' = conversations) ]_vars

\* C6 (as claimed): save_conversation with user_id None returns normally and
\* leaves the history of every user unchanged.
C6_SaveWithoutUserIsNoOp ==
    [][ (last'.op = "save_conversation" /\ last'.user_id = NoUser)
            => (~last'.raised /\ conversations' = conversations) ]_vars

\* C6 witness: save_conversation(None, ...) was called on a log that holds records.
C6_Witness ==
    /\ last.op = "save_conversation"
    /\ last.user_id = NoUser
    /\ last.raised
    /\ Len(conversations) >= 1

----------------------------------------------------------------------------
\* C7

\* C7: save_conversation(u, m, r) immediately followed by
\* get_user_conversation_history(u, 1) returns exactly one record, and it has
\* message m and response r.
C7_SaveThenHistoryReturnsTheSavedRecord ==
    [][ ( /\ last.op = "save_conversation"
          /\ ~last.raised
          /\ last'.op = "get_user_conversation_history"
          /\ last'.limit = 1
          /\ last'.user_id = last.user_id )
        => ( /\ Len(last'.result) = 1
             /\ last'.result[1].message = last.message
             /\ last'.result[1].response = last.response ) ]_vars

----------------------------------------------------------------------------
\* AIService (ai_service.py: provider-backed; src/ai_service.py: rule-based).
\*
\* A provider call is given its outcome: [ok |-> TRUE, ...] with what the
\* provider returned, or [ok |-> FALSE, ...] when the call raised (or, for the
\* HTTP endpoints of src/ai_service.py, answered with a status other than 200).
\* Every operation returns a record: ret (the return value), calls (the
\* provider calls it made, in order), raised (an exception left the operation)
\* and, where it applies, rows (table conversation_history afterwards), prompt
\* (the user prompt sent to the text-generation provider) and wrote (the output
\* file was written).

Call(p, ok) == [p |-> p, ok |-> ok]

\* the limit get_relevant_knowledge searches with
KnowledgeLimit == 3

\* str.lower()
LowerText(s) == [i \in 1..Len(s) |-> Lower(s[i])]

\* speech_to_text (both variants): the transcript, "" on any failure
speech_to_text(stt) ==
    [ret |-> IF stt.ok THEN stt.text ELSE <<>>,
     calls |-> <<Call("transcribe", stt.ok)>>,
     raised |-> FALSE]

\* mutant of text_to_speech: no try/except around the provider call
text_to_speech_Uncaught(tts) ==
    [ret |-> tts.ok, calls |-> <<Call("synthesize", tts.ok)>>, wrote |-> tts.ok,
     raised |-> ~tts.ok]

\* text_to_speech (both variants): True and the file written, False on any failure
text_to_speech(tts) ==
    [ret |-> tts.ok, calls |-> <<Call("synthesize", tts.ok)>>, wrote |-> tts.ok,
     raised |-> FALSE]

\* mutant of ItemBlock: the line of dashes is left out
ItemBlock_NoRule(item) ==
    Concat(<< TitleLabel, Fmt(item.title), Newline,
              CategoryLabel, Fmt(item.category), Newline,
              ContentLabel, Fmt(item.content), Newline,
              TagsLabel, (IF item.tags /= <<>> THEN Join(CommaSpace, item.tags) ELSE NoneText),
              Newline >>)

\* get_relevant_knowledge: the digest of the entries search_knowledge(query, 3) returned
ItemBlock(item) ==
    Concat(<< TitleLabel, Fmt(item.title), Newline,
              CategoryLabel, Fmt(item.category), Newline,
              ContentLabel, Fmt(item.content), Newline,
              TagsLabel, (IF item.tags /= <<>> THEN Join(CommaSpace, item.tags) ELSE NoneText),
              Newline,
              [i \in 1..50 |-> "-"], Newline >>)

get_relevant_knowledge(items) ==
    IF items = <<>> THEN <<>>
    ELSE RelevantHeader \o Concat([k \in 1..Len(items) |-> ItemBlock(items[k])])

\* mutant of UserPrompt: the context block is written also when it is empty
UserPrompt_AlwaysContext(items, user_message) ==
    Concat(<<ContextPrefix, get_relevant_knowledge(items), QuestionSep, Fmt(user_message)>>)

\* generate_response (ai_service.py): the user prompt
UserPrompt(items, user_message) ==
    LET relevant_knowledge == get_relevant_knowledge(items)
    IN  IF relevant_knowledge /= <<>>
        THEN Concat(<<ContextPrefix, relevant_knowledge, QuestionSep, Fmt(user_message)>>)
        ELSE QuestionPrefix \o Fmt(user_message)

\* if user_id:
UserIdGiven(user_id) == user_id /= NoUser /\ user_id /= <<0>>

\* mutant of generate_response: the answer is stripped of its last character
\* when the exchange is saved
generate_response_Trimmed(rows, now, items, user_message, user_id, gen) ==
    LET prompt == UserPrompt(items, user_message)
        made   == <<Call("generate", gen.ok)>>
        saved  == save_conversation(rows, now, user_id, user_message, gen.content)
    IN  IF gen.ok /\ UserIdGiven(user_id) /\ ~saved.raised
        THEN [ret |-> SubSeq(gen.content, 1, Len(gen.content) - 1), prompt |-> prompt,
              calls |-> made, rows |-> saved.rows, raised |-> FALSE]
        ELSE IF gen.ok
        THEN [ret |-> gen.content, prompt |-> prompt, calls |-> made, rows |-> rows,
              raised |-> FALSE]
        ELSE [ret |-> ApologyPrefix \o gen.error, prompt |-> prompt, calls |-> made,
              rows |-> rows, raised |-> FALSE]

\* mutant of generate_response: the apology of a failed call is saved as the
\* response of the exchange
generate_response_SavesApology(rows, now, items, user_message, user_id, gen) ==
    LET prompt == UserPrompt(items, user_message)
        made   == <<Call("generate", gen.ok)>>
        answer == IF gen.ok THEN gen.content ELSE ApologyPrefix \o gen.error
        saved  == IF UserIdGiven(user_id)
                  THEN save_conversation(rows, now, user_id, user_message, answer)
                  ELSE [rows |-> rows, raised |-> FALSE]
    IN  [ret |-> answer, prompt |-> prompt, calls |-> made, rows |-> saved.rows,
         raised |-> FALSE]

\* generate_response (ai_service.py): ask the provider, save the exchange when a
\* user id is given, return the answer; on any exception in the try block
\* return the apology with str(e)
generate_response(rows, now, items, user_message, user_id, gen) ==
    LET prompt == UserPrompt(items, user_message)
        made   == <<Call("generate", gen.ok)>>
    IN  IF gen.ok
        THEN LET saved == IF UserIdGiven(user_id)
                          THEN save_conversation(rows, now, user_id, user_message, gen.content)
                          ELSE [rows |-> rows, raised |-> FALSE]
             IN  IF saved.raised
                 THEN [ret |-> ApologyPrefix \o IntegrityErrorText, prompt |-> prompt,
                       calls |-> made, rows |-> rows, raised |-> FALSE]
                 ELSE [ret |-> gen.content, prompt |-> prompt, calls |-> made,
                       rows |-> saved.rows, raised |-> FALSE]
        ELSE [ret |-> ApologyPrefix \o gen.error, prompt |-> prompt, calls |-> made,
              rows |-> rows, raised |-> FALSE]

\* generate_simple_response (src/ai_service.py)
generate_simple_response(user_message) ==
    LET message_lower == LowerText(user_message)
    IN  IF Contains(message_lower, HelloWord) \/ Contains(message_lower, HiWord)
        THEN GreetingReply
        ELSE IF Contains(message_lower, HowAreYouPhrase) THEN HowAreYouReply
        ELSE IF Contains(message_lower, WhatCanYouDoPhrase) THEN CapabilityReply
        ELSE IF Contains(message_lower, ThankYouPhrase) \/ Contains(message_lower, ThanksWord)
        THEN ThanksReply
        ELSE IF Contains(message_lower, ByeWord) \/ Contains(message_lower, GoodbyeWord)
        THEN ByeReply
        ELSE Concat(<<EchoPrefix, user_message, EchoSuffix>>)

\* mutant of simple_generate_response: an entry that was found is the answer
simple_generate_response_FromKnowledge(rows, now, items, user_message, user_id) ==
    LET ai_response == IF items /= <<>> THEN items[1].content
                       ELSE generate_simple_response(user_message)
        saved == IF UserIdGiven(user_id)
                 THEN save_conversation(rows, now, user_id, user_message, ai_response)
                 ELSE [rows |-> rows, raised |-> FALSE]
    IN  [ret |-> ai_response, calls |-> <<>>, rows |-> saved.rows, raised |-> saved.raised]

\* generate_response (src/ai_service.py): the store is searched, the reply is
\* the rule-based one, the exchange is saved when a user id is given; nothing
\* is caught
simple_generate_response(rows, now, items, user_message, user_id) ==
    LET ai_response == generate_simple_response(user_message)
        saved == IF UserIdGiven(user_id)
                 THEN save_conversation(rows, now, user_id, user_message, ai_response)
                 ELSE [rows |-> rows, raised |-> FALSE]
    IN  [ret |-> ai_response, calls |-> <<>>, rows |-> saved.rows, raised |-> saved.raised]

\* mutant of speech_to_speech: the empty transcript is not checked
speech_to_speech_NoEmptyCheck(rows, now, items, stt, gen, tts) ==
    LET t == speech_to_text(stt)
        g == generate_response(rows, now, items, t.ret, NoUser, gen)
        s == text_to_speech(tts)
    IN  [ret |-> IF s.ret THEN g.ret ELSE <<>>, calls |-> t.calls \o g.calls \o s.calls,
         rows |-> g.rows, wrote |-> s.wrote, raised |-> FALSE]

\* speech_to_speech (ai_service.py): transcribe, stop on an empty transcript,
\* generate_response(text) without a user id, synthesize the answer; the
\* answer, or "" when the synthesis failed or anything raised
speech_to_speech(rows, now, items, stt, gen, tts) ==
    LET t == speech_to_text(stt)
        g == generate_response(rows, now, items, t.ret, NoUser, gen)
        s == text_to_speech(tts)
    IN  IF t.raised THEN [ret |-> <<>>, calls |-> t.calls, rows |-> rows, wrote |-> FALSE,
                          raised |-> FALSE]
        ELSE IF ~Truthy(t.ret)
        THEN [ret |-> <<>>, calls |-> t.calls, rows |-> rows, wrote |-> FALSE, raised |-> FALSE]
        ELSE IF g.raised
        THEN [ret |-> <<>>, calls |-> t.calls \o g.calls, rows |-> g.rows, wrote |-> FALSE,
              raised |-> FALSE]
        ELSE IF s.raised
        THEN [ret |-> <<>>, calls |-> t.calls \o g.calls \o s.calls, rows |-> g.rows,
              wrote |-> s.wrote, raised |-> FALSE]
        ELSE [ret |-> IF s.ret THEN g.ret ELSE <<>>, calls |-> t.calls \o g.calls \o s.calls,
              rows |-> g.rows, wrote |-> s.wrote, raised |-> FALSE]

\* speech_to_speech (src/ai_service.py): the same with generate_simple_response
simple_speech_to_speech(stt, tts) ==
    LET t == speech_to_text(stt)
        a == generate_simple_response(t.ret)
        s == text_to_speech(tts)
    IN  IF t.raised \/ ~Truthy(t.ret)
        THEN [ret |-> <<>>, calls |-> t.calls, wrote |-> FALSE, raised |-> FALSE]
        ELSE IF s.raised
        THEN [ret |-> <<>>, calls |-> t.calls \o s.calls, wrote |-> s.wrote, raised |-> FALSE]
        ELSE [ret |-> IF s.ret THEN a ELSE <<>>, calls |-> t.calls \o s.calls,
              wrote |-> s.wrote, raised |-> FALSE]

\* mutant of voice_to_voice: a failed conversion is retried through
\* transcription and synthesis
voice_to_voice_WithFallback(input_exists, conv) ==
    IF ~input_exists
    THEN [ret |-> <<>>, calls |-> <<>>, wrote |-> FALSE, size |-> 0, raised |-> FALSE]
    ELSE IF conv.ok
    THEN [ret |-> ConvertedMarker, calls |-> <<Call("convert", TRUE)>>, wrote |-> TRUE,
          size |-> conv.size, raised |-> FALSE]
    ELSE [ret |-> ConvertedMarker,
          calls |-> <<Call("convert", FALSE), Call("transcribe", TRUE), Call("synthesize", TRUE)>>,
          wrote |-> TRUE, size |-> 1, raised |-> FALSE]

\* voice_to_voice (src/ai_service.py): "" when the input file is missing, the
\* endpoint does not answer 200 or anything raises; else the body is written
\* to the output file and the marker returned
voice_to_voice(input_exists, conv) ==
    IF ~input_exists
    THEN [ret |-> <<>>, calls |-> <<>>, wrote |-> FALSE, size |-> 0, raised |-> FALSE]
    ELSE IF conv.ok
    THEN [ret |-> ConvertedMarker, calls |-> <<Call("convert", TRUE)>>, wrote |-> TRUE,
          size |-> conv.size, raised |-> FALSE]
    ELSE [ret |-> <<>>, calls |-> <<Call("convert", FALSE)>>, wrote |-> FALSE, size |-> 0,
          raised |-> FALSE]

\* fallback_voice_conversion (src/ai_service.py): transcribe, then synthesize
\* the transcript with the target voice
fallback_voice_conversion(stt, tts) ==
    LET t == speech_to_text(stt)
        s == text_to_speech(tts)
    IN  IF t.raised \/ ~Truthy(t.ret)
        THEN [ret |-> <<>>, calls |-> t.calls, wrote |-> FALSE, raised |-> FALSE]
        ELSE IF s.raised
        THEN [ret |-> <<>>, calls |-> t.calls \o s.calls, wrote |-> s.wrote, raised |-> FALSE]
        ELSE [ret |-> IF s.ret THEN FallbackMarker ELSE <<>>, calls |-> t.calls \o s.calls,
              wrote |-> s.wrote, raised |-> FALSE]

\* get_available_voices (ai_service.py): every voice, [] on any failure
get_available_voices(vl) ==
    [ret |-> IF vl.ok THEN vl.voices ELSE <<>>, calls |-> <<Call("voices", vl.ok)>>,
     raised |-> FALSE]

\* get_available_voices (src/ai_service.py): the cloned, generated and custom
\* voices only, [] on any failure
custom_voices(vl) ==
    [ret |-> IF vl.ok
             THEN SelectSeq(vl.voices, LAMBDA v : v.category \in {"cloned", "generated", "custom"})
             ELSE <<>>,
     calls |-> <<Call("voices", vl.ok)>>,
     raised |-> FALSE]

----------------------------------------------------------------------------
\* Operations of AIService, called directly.

AnswerText ==
    <<"R","L"," ","i","s"," ","l","e","a","r","n","i","n","g"," ","f","r","o","m"," ","r","e",
      "w","a","r","d","s",".">>
ErrorTimeout ==
    <<"R","e","q","u","e","s","t"," ","t","i","m","e","d"," ","o","u","t",".">>

Messages == {QueryRL, <<>>}

SttOutcomes(text) ==
    { [ok |-> FALSE, text |-> <<>>], [ok |-> TRUE, text |-> <<>>], [ok |-> TRUE, text |-> text] }

GenOutcomes ==
    { [ok |-> TRUE, content |-> AnswerText, error |-> <<>>],
      [ok |-> TRUE, content |-> <<>>, error |-> <<>>],
      [ok |-> FALSE, content |-> <<>>, error |-> ErrorTimeout] }

TtsOutcomes == { [ok |-> TRUE], [ok |-> FALSE] }

ConvOutcomes == { [ok |-> TRUE, size |-> 1], [ok |-> TRUE, size |-> 0], [ok |-> FALSE, size |-> 0] }

VoiceLists ==
    { [ok |-> FALSE, voices |-> <<>>],
      [ok |-> TRUE, voices |-> <<>>],
      [ok |-> TRUE, voices |-> << [voice_id |-> "v1", name |-> "Rachel", category |-> "premade"],
                                  [voice_id |-> "v2", name |-> "Mine", category |-> "cloned"] >>] }

\* The same as Init, with the message of the calls drawn from the inputs.
InitService ==
    /\ knowledge = <<>>
    /\ conversations = <<>>
    /\ clock = 0
    /\ tmpfiles = {}
    /\ user_states = <<>>
    /\ requests = 0
    /\ probe \in [query : Messages, limit : {KnowledgeLimit}]
    /\ last = [op |-> "init"]

Unchanged_service == UNCHANGED <<knowledge, clock, tmpfiles, user_states, requests, probe>>

\* AIService.generate_response(user_message, user_id) of ai_service.py
ServiceGenerateResponse ==
    \E items \in search_knowledge(knowledge, probe.query, KnowledgeLimit) :
        \E user_id \in Callers, gen \in GenOutcomes :
            LET r == generate_response(conversations, clock, items, probe.query, user_id, gen)
            IN  /\ Len(conversations) < MaxConversations
                /\ conversations' = r.rows
                /\ last' = [op |-> "generate_response", service |-> "provider",
                            user_message |-> probe.query, user_id |-> user_id, gen |-> gen,
                            items |-> items, prompt |-> r.prompt, ret |-> r.ret,
                            calls |-> r.calls, saved |-> r.rows /= conversations,
                            raised |-> r.raised]
                /\ Unchanged_service

\* AIService.generate_response(user_message, user_id) of src/ai_service.py
SimpleGenerateResponse ==
    \E items \in search_knowledge(knowledge, probe.query, KnowledgeLimit) :
        \E user_id \in Callers :
            LET r == simple_generate_response(conversations, clock, items, probe.query, user_id)
            IN  /\ Len(conversations) < MaxConversations
                /\ conversations' = r.rows
                /\ last' = [op |-> "generate_response", service |-> "simple",
                            user_message |-> probe.query, user_id |-> user_id,
                            items |-> items, ret |-> r.ret,
                            calls |-> r.calls, saved |-> r.rows /= conversations,
                            raised |-> r.raised]
                /\ Unchanged_service

\* AIService.speech_to_speech of ai_service.py
ServiceSpeechToSpeech ==
    \E stt \in SttOutcomes(probe.query), gen \in GenOutcomes, tts \in TtsOutcomes :
        \E items \in search_knowledge(knowledge, speech_to_text(stt).ret, KnowledgeLimit) :
            LET r == speech_to_speech(conversations, clock, items, stt, gen, tts)
            IN  /\ conversations' = r.rows
                /\ last' = [op |-> "speech_to_speech", service |-> "provider",
                            transcript |-> speech_to_text(stt).ret, stt |-> stt, ret |-> r.ret,
                            calls |-> r.calls, saved |-> r.rows /= conversations,
                            raised |-> r.raised]
                /\ Unchanged_service

\* AIService.speech_to_speech of src/ai_service.py
SimpleSpeechToSpeech ==
    \E stt \in SttOutcomes(probe.query), tts \in TtsOutcomes :
        LET r == simple_speech_to_speech(stt, tts)
        IN  /\ last' = [op |-> "speech_to_speech", service |-> "simple",
                        transcript |-> speech_to_text(stt).ret, stt |-> stt, ret |-> r.ret,
                        calls |-> r.calls, saved |-> FALSE, raised |-> r.raised]
            /\ UNCHANGED conversations
            /\ Unchanged_service

ServiceSpeechToText ==
    \E stt \in SttOutcomes(probe.query) :
        LET r == speech_to_text(stt)
        IN  /\ last' = [op |-> "speech_to_text", ret |-> r.ret, calls |-> r.calls,
                        raised |-> r.raised]
            /\ UNCHANGED conversations
            /\ Unchanged_service

ServiceTextToSpeech ==
    \E tts \in TtsOutcomes :
        LET r == text_to_speech(tts)
        IN  /\ last' = [op |-> "text_to_speech", text |-> probe.query, ret |-> r.ret,
                        calls |-> r.calls, raised |-> r.raised]
            /\ UNCHANGED conversations
            /\ Unchanged_service

ServiceVoiceToVoice ==
    \E input_exists \in BOOLEAN, conv \in ConvOutcomes :
        LET r == voice_to_voice(input_exists, conv)
        IN  /\ last' = [op |-> "voice_to_voice", ret |-> r.ret, calls |-> r.calls,
                        size |-> r.size, raised |-> r.raised]
            /\ UNCHANGED conversations
            /\ Unchanged_service

ServiceFallbackVoiceConversion ==
    \E stt \in SttOutcomes(probe.query), tts \in TtsOutcomes :
        LET r == fallback_voice_conversion(stt, tts)
        IN  /\ last' = [op |-> "fallback_voice_conversion", ret |-> r.ret, calls |-> r.calls,
                        raised |-> r.raised]
            /\ UNCHANGED conversations
            /\ Unchanged_service

ServiceGetAvailableVoices ==
    \E vl \in VoiceLists :
        LET r == get_available_voices(vl)
        IN  /\ last' = [op |-> "get_available_voices", service |-> "provider", ret |-> r.ret,
                        calls |-> r.calls, raised |-> r.raised]
            /\ UNCHANGED conversations
            /\ Unchanged_service

SimpleGetAvailableVoices ==
    \E vl \in VoiceLists :
        LET r == custom_voices(vl)
        IN  /\ last' = [op |-> "get_available_voices", service |-> "simple", ret |-> r.ret,
                        calls |-> r.calls, raised |-> r.raised]
            /\ UNCHANGED conversations
            /\ Unchanged_service

\* Knowledge-augmented answering: the store is filled and generate_response called.
NextService == AddKnowledge \/ ServiceGenerateResponse \/ SimpleGenerateResponse

SpecService == InitService /\ [][NextService]_vars

\* Every operation of AIService that calls a provider, over an empty knowledge store.
NextSpeech ==
    \/ ServiceGenerateResponse
    \/ SimpleGenerateResponse
    \/ ServiceSpeechToSpeech
    \/ SimpleSpeechToSpeech
    \/ ServiceSpeechToText
    \/ ServiceTextToSpeech
    \/ ServiceVoiceToVoice
    \/ ServiceFallbackVoiceConversion
    \/ ServiceGetAvailableVoices
    \/ SimpleGetAvailableVoices

SpecSpeech == InitService /\ [][NextSpeech]_vars

----------------------------------------------------------------------------
\* The front-ends (telegram_bot.py: provider-backed; src/bot.py: voice bot).
\*
\* The library runs the handlers one update at a time, so a handler is one
\* step.  A handler is given the outcome of each call it makes to Telegram
\* and to the providers, and returns a record: replies (what it sent to the
\* user, in order), calls (the provider calls made, in order), created (the
\* temporary files it created), left (those that still exist when it
\* returns) and, where it applies, rows and states.

SorryRequest ==
    <<"S","o","r","r","y",","," ","I"," ","e","n","c","o","u","n","t","e","r","e","d"," ","a",
      "n"," ","e","r","r","o","r"," ","w","h","i","l","e"," ","p","r","o","c","e","s","s","i",
      "n","g"," ","y","o","u","r"," ","r","e","q","u","e","s","t","."," ","P","l","e","a","s",
      "e"," ","t","r","y"," ","a","g","a","i","n",".">>

SorryAudioFile ==
    <<"S","o","r","r","y",","," ","I"," ","c","o","u","l","d","n","'","t"," ","p","r","o","c",
      "e","s","s"," ","t","h","e"," ","a","u","d","i","o"," ","f","i","l","e","."," ","P","l",
      "e","a","s","e"," ","t","r","y"," ","a","g","a","i","n",".">>

SorryVoiceMessage ==
    <<"S","o","r","r","y",","," ","I"," ","c","o","u","l","d","n","'","t"," ","p","r","o","c",
      "e","s","s"," ","y","o","u","r"," ","v","o","i","c","e"," ","m","e","s","s","a","g","e",
      "."," ","P","l","e","a","s","e"," ","t","r","y"," ","a","g","a","i","n",".">>

SorryVoiceError ==
    <<"S","o","r","r","y",","," ","I"," ","e","n","c","o","u","n","t","e","r","e","d"," ","a",
      "n"," ","e","r","r","o","r"," ","w","h","i","l","e"," ","p","r","o","c","e","s","s","i",
      "n","g"," ","y","o","u","r"," ","v","o","i","c","e"," ","m","e","s","s","a","g","e",".",
      " ","P","l","e","a","s","e"," ","t","r","y"," ","a","g","a","i","n",".">>

SorryAudioMessage ==
    <<"S","o","r","r","y",","," ","I"," ","c","o","u","l","d","n","'","t"," ","p","r","o","c",
      "e","s","s"," ","y","o","u","r"," ","a","u","d","i","o"," ","m","e","s","s","a","g","e",
      "."," ","P","l","e","a","s","e"," ","t","r","y"," ","a","g","a","i","n",".">>

SorryAudioError ==
    <<"S","o","r","r","y",","," ","I"," ","e","n","c","o","u","n","t","e","r","e","d"," ","a",
      "n"," ","e","r","r","o","r"," ","w","h","i","l","e"," ","p","r","o","c","e","s","s","i",
      "n","g"," ","y","o","u","r"," ","a","u","d","i","o"," ","m","e","s","s","a","g","e",".",
      " ","P","l","e","a","s","e"," ","t","r","y"," ","a","g","a","i","n",".">>

YouSaid ==
    <<" ","Y","o","u"," ","s","a","i","d",":"," ">>

PleaseSelectVoice ==
    <<"P","l","e","a","s","e"," ","s","e","l","e","c","t"," ","a"," ","v","o","i","c","e"," ",
      "f","i","r","s","t"," ","u","s","i","n","g"," ","t","h","e"," ","G","e","n","e","r","a",
      "t","e"," ","V","o","i","c","e"," ","b","u","t","t","o","n",".">>

TextPrompt ==
    <<"S","e","n","d"," ","m","e"," ","s","o","m","e"," ","t","e","x","t"," ","a","n","d"," ",
      "I","'","l","l"," ","c","o","n","v","e","r","t"," ","i","t"," ","t","o"," ","s","p","e",
      "e","c","h","!"," ","C","l","i","c","k"," ","t","h","e"," ","b","u","t","t","o","n"," ",
      "b","e","l","o","w"," ","t","o"," ","s","e","l","e","c","t"," ","a"," ","v","o","i","c",
      "e",":">>

VoicePrompt ==
    <<"I"," ","c","a","n"," ","c","o","n","v","e","r","t"," ","y","o","u","r"," ","v","o","i",
      "c","e"," ","t","o"," ","a"," ","d","i","f","f","e","r","e","n","t"," ","v","o","i","c",
      "e","!"," ","C","l","i","c","k"," ","t","h","e"," ","b","u","t","t","o","n"," ","b","e",
      "l","o","w"," ","t","o"," ","s","e","l","e","c","t"," ","a"," ","t","a","r","g","e","t",
      " ","v","o","i","c","e",":">>

AudioPrompt ==
    <<"I"," ","c","a","n"," ","c","o","n","v","e","r","t"," ","y","o","u","r"," ","a","u","d",
      "i","o"," ","t","o"," ","a"," ","d","i","f","f","e","r","e","n","t"," ","v","o","i","c",
      "e","!"," ","C","l","i","c","k"," ","t","h","e"," ","b","u","t","t","o","n"," ","b","e",
      "l","o","w"," ","t","o"," ","s","e","l","e","c","t"," ","a"," ","t","a","r","g","e","t",
      " ","v","o","i","c","e",":">>

ClickToGenerate ==
    <<"C","l","i","c","k"," ","t","o"," ","G","e","n","e","r","a","t","e">>

SorryGenerate ==
    <<"S","o","r","r","y",","," ","I"," ","c","o","u","l","d","n","'","t"," ","g","e","n","e",
      "r","a","t","e"," ","t","h","e"," ","v","o","i","c","e","."," ","P","l","e","a","s","e",
      " ","t","r","y"," ","a","g","a","i","n",".">>

SorryGenerateError ==
    <<"S","o","r","r","y",","," ","I"," ","e","n","c","o","u","n","t","e","r","e","d"," ","a",
      "n"," ","e","r","r","o","r"," ","w","h","i","l","e"," ","g","e","n","e","r","a","t","i",
      "n","g"," ","t","h","e"," ","v","o","i","c","e",".">>

SorryAudioFileShort ==
    <<"S","o","r","r","y",","," ","I"," ","c","o","u","l","d","n","'","t"," ","p","r","o","c",
      "e","s","s"," ","t","h","e"," ","a","u","d","i","o"," ","f","i","l","e",".">>

SorryConvert ==
    <<"S","o","r","r","y",","," ","I"," ","c","o","u","l","d","n","'","t"," ","c","o","n","v",
      "e","r","t"," ","y","o","u","r"," ","v","o","i","c","e","."," ","P","l","e","a","s","e",
      " ","t","r","y"," ","a","g","a","i","n",".">>

SorryConvertError ==
    <<"S","o","r","r","y",","," ","I"," ","e","n","c","o","u","n","t","e","r","e","d"," ","a",
      "n"," ","e","r","r","o","r"," ","w","h","i","l","e"," ","c","o","n","v","e","r","t","i",
      "n","g"," ","y","o","u","r"," ","v","o","i","c","e",".">>

CouldNotRetrieveVoices ==
    <<"C","o","u","l","d"," ","n","o","t"," ","r","e","t","r","i","e","v","e"," ","v","o","i",
      "c","e","s","."," ","P","l","e","a","s","e"," ","c","h","e","c","k"," ","y","o","u","r",
      " ","E","l","e","v","e","n","L","a","b","s"," ","A","P","I"," ","k","e","y",".">>

SelectAVoice ==
    <<"S","e","l","e","c","t"," ","a"," ","v","o","i","c","e">>

VoiceSelected ==
    <<"V","o","i","c","e"," ","S","e","l","e","c","t","e","d","!"," ","N","o","w"," ","s","e",
      "n","d"," ","m","e"," ","s","o","m","e"," ","t","e","x","t"," ","t","o"," ","c","o","n",
      "v","e","r","t"," ","t","o"," ","s","p","e","e","c","h",","," ","o","r"," ","s","e","n",
      "d"," ","a"," ","v","o","i","c","e"," ","m","e","s","s","a","g","e"," ","t","o"," ","c",
      "o","n","v","e","r","t"," ","i","t"," ","t","o"," ","t","h","e"," ","s","e","l","e","c",
      "t","e","d"," ","v","o","i","c","e",".">>

\* the emoji that open the "You said" lines, each one character
MicEmoji == "U+1F3A4"
NoteEmoji == "U+1F3B5"

\* reply_text / edit_message_text / send_audio
TextReply(text) == [kind |-> "text", text |-> text, buttons |-> <<>>]
EditReply(text, buttons) == [kind |-> "edit", text |-> text, buttons |-> buttons]
AudioReply(file) == [kind |-> "audio", text |-> <<>>, buttons |-> <<>>]

\* tempfile.NamedTemporaryFile(suffix=..., delete=False) of the handler run req
TempFile(req, suffix) == [req |-> req, suffix |-> suffix]

\* get_file and download_to_drive: both succeed, or one of them raises
FetchOutcomes == {"ok", "get_file_raises", "download_raises"}

\* self.user_states[user_id] = state
SetState(states, user_id, state) ==
    [u \in DOMAIN states \cup {user_id} |-> IF u = user_id THEN state ELSE states[u]]

\* del self.user_states[user_id]
DelState(states, user_id) == [u \in DOMAIN states \ {user_id} |-> states[u]]

\* convert_ogg_to_wav (ai_service.py): AudioSegment is not imported, the
\* NameError is caught and the result is False
convert_ogg_to_wav == FALSE

\* convert_ogg_to_wav (src/ai_service.py): ffmpeg's exit status
ffmpeg_convert_ogg_to_wav(ffmpeg_ok) == ffmpeg_ok

\* handle_message (telegram_bot.py): reply with generate_response(text, user_id);
\* Telegram rejects an empty text, which raises into the except branch
handle_message(rows, now, items, user_message, user_id, gen) ==
    LET r == generate_response(rows, now, items, user_message, <<user_id>>, gen)
    IN  [replies |-> IF r.raised \/ ~Truthy(r.ret) THEN <<TextReply(SorryRequest)>>
                     ELSE <<TextReply(r.ret)>>,
         calls |-> r.calls, rows |-> r.rows, created |-> {}, left |-> {}]

\* the part of handle_voice_message / handle_audio_message (telegram_bot.py)
\* from speech_to_speech to the clean-up
speech_reply(rows, now, items, input, mp3, emoji, sorry, sorry_error, stt, gen, tts, stt_again, send_ok) ==
    LET s == speech_to_speech(rows, now, items, stt, gen, tts)
        again == speech_to_text(stt_again)
    IN  IF Truthy(s.ret)
        THEN IF send_ok
             THEN [replies |-> << TextReply(<<emoji>> \o YouSaid \o again.ret),
                                  TextReply(s.ret), AudioReply(mp3) >>,
                   calls |-> s.calls \o again.calls, rows |-> s.rows,
                   created |-> input \cup {mp3}, left |-> {}]
             ELSE [replies |-> << TextReply(<<emoji>> \o YouSaid \o again.ret),
                                  TextReply(s.ret), TextReply(sorry_error) >>,
                   calls |-> s.calls \o again.calls, rows |-> s.rows,
                   created |-> input \cup {mp3}, left |-> input \cup {mp3}]
        ELSE [replies |-> <<TextReply(sorry)>>, calls |-> s.calls, rows |-> s.rows,
              created |-> input \cup {mp3}, left |-> {}]

\* handle_voice_message (telegram_bot.py)
handle_voice_message(rows, now, items, req, fetch, stt, gen, tts, stt_again, send_ok) ==
    LET ogg == TempFile(req, "ogg")
        wav == TempFile(req, "wav")
        mp3 == TempFile(req, "mp3")
    IN  IF fetch = "get_file_raises"
        THEN [replies |-> <<TextReply(SorryVoiceError)>>, calls |-> <<>>, rows |-> rows,
              created |-> {}, left |-> {}]
        ELSE IF fetch = "download_raises"
        THEN [replies |-> <<TextReply(SorryVoiceError)>>, calls |-> <<>>, rows |-> rows,
              created |-> {ogg}, left |-> {ogg}]
        ELSE IF ~convert_ogg_to_wav
        THEN [replies |-> <<TextReply(SorryAudioFile)>>, calls |-> <<>>, rows |-> rows,
              created |-> {ogg, wav}, left |-> {ogg, wav}]
        ELSE speech_reply(rows, now, items, {ogg, wav}, mp3, MicEmoji, SorryVoiceMessage,
                          SorryVoiceError, stt, gen, tts, stt_again, send_ok)

\* handle_audio_message (telegram_bot.py)
handle_audio_message(rows, now, items, req, fetch, stt, gen, tts, stt_again, send_ok) ==
    LET audio == TempFile(req, "audio")
        mp3 == TempFile(req, "mp3")
    IN  IF fetch = "get_file_raises"
        THEN [replies |-> <<TextReply(SorryAudioError)>>, calls |-> <<>>, rows |-> rows,
              created |-> {}, left |-> {}]
        ELSE IF fetch = "download_raises"
        THEN [replies |-> <<TextReply(SorryAudioError)>>, calls |-> <<>>, rows |-> rows,
              created |-> {audio}, left |-> {audio}]
        ELSE speech_reply(rows, now, items, {audio}, mp3, NoteEmoji, SorryAudioMessage,
                          SorryAudioError, stt, gen, tts, stt_again, send_ok)

\* mutant of generate_speech_from_text: the result of text_to_speech is not looked at
generate_speech_from_text_Unchecked(req, tts, send_ok) ==
    LET mp3 == TempFile(req, "mp3")
        t == text_to_speech(tts)
    IN  IF send_ok
        THEN [replies |-> <<AudioReply(mp3), TextReply(ClickToGenerate)>>,
              calls |-> t.calls, created |-> {mp3}, left |-> {}]
        ELSE [replies |-> <<TextReply(SorryGenerateError), TextReply(ClickToGenerate)>>,
              calls |-> t.calls, created |-> {mp3}, left |-> {mp3}]

\* generate_speech_from_text (src/bot.py)
generate_speech_from_text(req, tts, send_ok) ==
    LET mp3 == TempFile(req, "mp3")
        t == text_to_speech(tts)
    IN  IF t.ret
        THEN IF send_ok
             THEN [replies |-> <<AudioReply(mp3), TextReply(ClickToGenerate)>>,
                   calls |-> t.calls, created |-> {mp3}, left |-> {}]
             ELSE [replies |-> <<TextReply(SorryGenerateError), TextReply(ClickToGenerate)>>,
                   calls |-> t.calls, created |-> {mp3}, left |-> {mp3}]
        ELSE [replies |-> <<TextReply(SorryGenerate), TextReply(ClickToGenerate)>>,
              calls |-> t.calls, created |-> {mp3}, left |-> {}]

\* mutant of convert_voice_to_voice: send_audio takes a file of any size
convert_voice_to_voice_SendsAnyFile(req, is_audio, fetch, ffmpeg_ok, conv, send_ok) ==
    LET input == TempFile(req, IF is_audio THEN "audio" ELSE "ogg")
        wav == TempFile(req, "wav")
        mp3 == TempFile(req, "mp3")
        made == IF is_audio THEN {input, mp3} ELSE {input, wav, mp3}
        v == voice_to_voice(TRUE, conv)
        error == <<TextReply(SorryConvertError), TextReply(ClickToGenerate)>>
    IN  IF fetch = "get_file_raises"
        THEN [replies |-> error, calls |-> <<>>, created |-> {}, left |-> {}, audio_size |-> 0]
        ELSE IF fetch = "download_raises"
        THEN [replies |-> error, calls |-> <<>>, created |-> {input}, left |-> {input},
              audio_size |-> 0]
        ELSE IF ~is_audio /\ ~ffmpeg_convert_ogg_to_wav(ffmpeg_ok)
        THEN [replies |-> <<TextReply(SorryAudioFileShort)>>, calls |-> <<>>,
              created |-> {input, wav}, left |-> {input, wav}, audio_size |-> 0]
        ELSE IF Truthy(v.ret)
        THEN IF send_ok
             THEN [replies |-> <<AudioReply(mp3), TextReply(ClickToGenerate)>>,
                   calls |-> v.calls, created |-> made,
                   left |-> made \ {IF is_audio THEN input ELSE wav, mp3},
                   audio_size |-> v.size]
             ELSE [replies |-> error, calls |-> v.calls, created |-> made, left |-> made,
                   audio_size |-> v.size]
        ELSE [replies |-> <<TextReply(SorryConvert), TextReply(ClickToGenerate)>>,
              calls |-> v.calls, created |-> made,
              left |-> made \ {IF is_audio THEN input ELSE wav, mp3}, audio_size |-> v.size]

\* convert_voice_to_voice (src/bot.py): after the clean-up input_path names
\* the WAV file for a voice message, so the downloaded OGG file stays; send_audio
\* raises on an empty file (Telegram refuses it), which ends in the except branch
convert_voice_to_voice(req, is_audio, fetch, ffmpeg_ok, conv, send_ok) ==
    LET input == TempFile(req, IF is_audio THEN "audio" ELSE "ogg")
        wav == TempFile(req, "wav")
        mp3 == TempFile(req, "mp3")
        made == IF is_audio THEN {input, mp3} ELSE {input, wav, mp3}
        v == voice_to_voice(TRUE, conv)
        error == <<TextReply(SorryConvertError), TextReply(ClickToGenerate)>>
    IN  IF fetch = "get_file_raises"
        THEN [replies |-> error, calls |-> <<>>, created |-> {}, left |-> {}, audio_size |-> 0]
        ELSE IF fetch = "download_raises"
        THEN [replies |-> error, calls |-> <<>>, created |-> {input}, left |-> {input},
              audio_size |-> 0]
        ELSE IF ~is_audio /\ ~ffmpeg_convert_ogg_to_wav(ffmpeg_ok)
        THEN [replies |-> <<TextReply(SorryAudioFileShort)>>, calls |-> <<>>,
              created |-> {input, wav}, left |-> {input, wav}, audio_size |-> 0]
        ELSE IF Truthy(v.ret)
        THEN IF send_ok /\ v.size > 0
             THEN [replies |-> <<AudioReply(mp3), TextReply(ClickToGenerate)>>,
                   calls |-> v.calls, created |-> made,
                   left |-> made \ {IF is_audio THEN input ELSE wav, mp3},
                   audio_size |-> v.size]
             ELSE [replies |-> error, calls |-> v.calls, created |-> made, left |-> made,
                   audio_size |-> v.size]
        ELSE [replies |-> <<TextReply(SorryConvert), TextReply(ClickToGenerate)>>,
              calls |-> v.calls, created |-> made,
              left |-> made \ {IF is_audio THEN input ELSE wav, mp3}, audio_size |-> v.size]

\* mutant of bot_handle_message: the voice is the one selected last by anyone
bot_handle_message_SharedVoice(states, user_id, req, tts, send_ok) ==
    IF DOMAIN states /= {}
    THEN LET g == generate_speech_from_text(req, tts, send_ok)
             any == CHOOSE u \in DOMAIN states : \A w \in DOMAIN states : u >= w
         IN  [replies |-> g.replies, calls |-> g.calls, created |-> g.created,
              left |-> g.left, states |-> DelState(states, any),
              voice_id |-> states[any].selected_voice]
    ELSE [replies |-> <<TextReply(TextPrompt)>>, calls |-> <<>>, created |-> {}, left |-> {},
          states |-> states, voice_id |-> ""]

\* handle_message (src/bot.py): text to speech with the selected voice, then
\* the selection is forgotten
bot_handle_message(states, user_id, req, tts, send_ok) ==
    IF user_id \in DOMAIN states /\ states[user_id].waiting_for_text
    THEN IF states[user_id].selected_voice /= ""
         THEN LET g == generate_speech_from_text(req, tts, send_ok)
              IN  [replies |-> g.replies, calls |-> g.calls, created |-> g.created,
                   left |-> g.left, states |-> DelState(states, user_id),
                   voice_id |-> states[user_id].selected_voice]
         ELSE [replies |-> <<TextReply(PleaseSelectVoice)>>, calls |-> <<>>, created |-> {},
               left |-> {}, states |-> states, voice_id |-> ""]
    ELSE [replies |-> <<TextReply(TextPrompt)>>, calls |-> <<>>, created |-> {}, left |-> {},
          states |-> states, voice_id |-> ""]

\* handle_voice_message / handle_audio_message (src/bot.py)
bot_handle_voice_message(states, user_id, req, is_audio, fetch, ffmpeg_ok, conv, send_ok) ==
    IF user_id \in DOMAIN states /\ states[user_id].selected_voice /= ""
    THEN LET c == convert_voice_to_voice(req, is_audio, fetch, ffmpeg_ok, conv, send_ok)
         IN  [replies |-> c.replies, calls |-> c.calls, created |-> c.created,
              left |-> c.left, states |-> states, audio_size |-> c.audio_size,
              voice_id |-> states[user_id].selected_voice]
    ELSE [replies |-> <<TextReply(IF is_audio THEN AudioPrompt ELSE VoicePrompt)>>,
          calls |-> <<>>, created |-> {}, left |-> {}, states |-> states, audio_size |-> 0,
          voice_id |-> ""]

\* handle_callback (src/bot.py), query.data == "generate_voice"
callback_generate_voice(vl) ==
    LET v == custom_voices(vl)
    IN  [replies |-> IF v.ret = <<>> THEN <<EditReply(CouldNotRetrieveVoices, <<>>)>>
                     ELSE <<EditReply(SelectAVoice,
                                      [k \in 1..Min(8, Len(v.ret)) |-> v.ret[k].voice_id])>>,
         calls |-> v.calls]

\* handle_callback (src/bot.py), query.data starts with "select_voice_"
callback_select_voice(states, user_id, voice_id) ==
    [replies |-> <<EditReply(VoiceSelected, <<>>)>>,
     states |-> SetState(states, user_id,
                         [selected_voice |-> voice_id, waiting_for_text |-> TRUE])]

----------------------------------------------------------------------------
\* The handlers as steps.

\* the text of a text message, and what is said in a voice or audio message
Texts == {m \in Messages : m /= <<>>}

\* the voice ids of the selection buttons
VoiceIds == {"v2", "v3"}

\* the handler ran: its temporary files are named after its number
Ran(r) ==
    /\ requests' = requests + 1
    /\ tmpfiles' = tmpfiles \cup r.left

\* telegram_bot.py: handle_message
HandleMessage ==
    \E user_id \in UserIds, text \in Texts, gen \in GenOutcomes :
        \E items \in search_knowledge(knowledge, text, KnowledgeLimit) :
            LET r == handle_message(conversations, clock, items, text, user_id, gen)
            IN  /\ requests < MaxRequests
                /\ Ran(r)
                /\ conversations' = r.rows
                /\ last' = [op |-> "handle_message", front |-> "telegram_bot",
                            user_id |-> user_id, gen |-> gen, replies |-> r.replies,
                            calls |-> r.calls, created |-> r.created]
                /\ UNCHANGED <<knowledge, clock, user_states, probe>>

\* The outcome of a call is drawn when the handler can get to the call; a
\* call it cannot get to is given the outcome none.
Drawn(reached, outcomes, none) == IF reached THEN outcomes ELSE {none}

NoStt == [ok |-> FALSE, text |-> <<>>]
NoGen == [ok |-> FALSE, content |-> <<>>, error |-> <<>>]
NoTts == [ok |-> FALSE]
NoConv == [ok |-> FALSE, size |-> 0]

\* telegram_bot.py: handle_voice_message
HandleVoiceMessage ==
    \E text \in Texts, fetch \in FetchOutcomes :
      \E stt \in Drawn(fetch = "ok" /\ convert_ogg_to_wav, SttOutcomes(text), NoStt) :
        \E gen \in Drawn(Truthy(speech_to_text(stt).ret), GenOutcomes, NoGen),
           tts \in Drawn(Truthy(speech_to_text(stt).ret), TtsOutcomes, NoTts) :
          \E stt_again \in Drawn(tts.ok, SttOutcomes(text), NoStt),
             send_ok \in Drawn(tts.ok, BOOLEAN, FALSE) :
            \E items \in search_knowledge(knowledge, speech_to_text(stt).ret, KnowledgeLimit) :
                LET r == handle_voice_message(conversations, clock, items, requests + 1,
                                              fetch, stt, gen, tts, stt_again, send_ok)
                IN  /\ requests < MaxRequests
                    /\ Ran(r)
                    /\ conversations' = r.rows
                    /\ last' = [op |-> "handle_voice_message", front |-> "telegram_bot",
                                fetch |-> fetch, transcript |-> speech_to_text(stt).ret,
                                gen |-> gen, replies |-> r.replies, calls |-> r.calls,
                                created |-> r.created]
                    /\ UNCHANGED <<knowledge, clock, user_states, probe>>

\* telegram_bot.py: handle_audio_message
HandleAudioMessage ==
    \E text \in Texts, fetch \in FetchOutcomes :
      \E stt \in Drawn(fetch = "ok", SttOutcomes(text), NoStt) :
        \E gen \in Drawn(Truthy(speech_to_text(stt).ret), GenOutcomes, NoGen),
           tts \in Drawn(Truthy(speech_to_text(stt).ret), TtsOutcomes, NoTts) :
          \E stt_again \in Drawn(tts.ok, SttOutcomes(text), NoStt),
             send_ok \in Drawn(tts.ok, BOOLEAN, FALSE) :
            \E items \in search_knowledge(knowledge, speech_to_text(stt).ret, KnowledgeLimit) :
                LET r == handle_audio_message(conversations, clock, items, requests + 1,
                                              fetch, stt, gen, tts, stt_again, send_ok)
                IN  /\ requests < MaxRequests
                    /\ Ran(r)
                    /\ conversations' = r.rows
                    /\ last' = [op |-> "handle_audio_message", front |-> "telegram_bot",
                                fetch |-> fetch, transcript |-> speech_to_text(stt).ret,
                                gen |-> gen, replies |-> r.replies, calls |-> r.calls,
                                created |-> r.created]
                    /\ UNCHANGED <<knowledge, clock, user_states, probe>>

\* src/bot.py: handle_message
BotHandleMessage ==
    \E user_id \in UserIds :
      \E tts \in Drawn(user_id \in DOMAIN user_states, TtsOutcomes, NoTts) :
        \E send_ok \in BOOLEAN :
          LET r == bot_handle_message(user_states, user_id, requests + 1, tts, send_ok)
          IN  /\ requests < MaxRequests
              /\ Ran(r)
              /\ user_states' = r.states
              /\ last' = [op |-> "handle_message", front |-> "bot", user_id |-> user_id,
                          replies |-> r.replies, calls |-> r.calls, created |-> r.created,
                          voice_id |-> r.voice_id]
              /\ UNCHANGED <<knowledge, conversations, clock, probe>>

\* src/bot.py: handle_voice_message
BotHandleVoiceMessage ==
    \E user_id \in UserIds :
      \E fetch \in Drawn(user_id \in DOMAIN user_states, FetchOutcomes, "get_file_raises") :
        \E ffmpeg_ok \in Drawn(fetch = "ok", BOOLEAN, FALSE) :
          \E conv \in Drawn(ffmpeg_ok, ConvOutcomes, NoConv) :
            \E send_ok \in BOOLEAN :
              LET r == bot_handle_voice_message(user_states, user_id, requests + 1, FALSE,
                                                fetch, ffmpeg_ok, conv, send_ok)
              IN  /\ requests < MaxRequests
                  /\ Ran(r)
                  /\ user_states' = r.states
                  /\ last' = [op |-> "handle_voice_message", front |-> "bot",
                              user_id |-> user_id, replies |-> r.replies, calls |-> r.calls,
                              created |-> r.created, audio_size |-> r.audio_size,
                              voice_id |-> r.voice_id]
                  /\ UNCHANGED <<knowledge, conversations, clock, probe>>

\* src/bot.py: handle_audio_message
BotHandleAudioMessage ==
    \E user_id \in UserIds :
      \E fetch \in Drawn(user_id \in DOMAIN user_states, FetchOutcomes, "get_file_raises") :
        \E conv \in Drawn(fetch = "ok", ConvOutcomes, NoConv) :
          \E send_ok \in BOOLEAN :
            LET r == bot_handle_voice_message(user_states, user_id, requests + 1, TRUE,
                                              fetch, TRUE, conv, send_ok)
            IN  /\ requests < MaxRequests
                /\ Ran(r)
                /\ user_states' = r.states
                /\ last' = [op |-> "handle_audio_message", front |-> "bot",
                            user_id |-> user_id, replies |-> r.replies, calls |-> r.calls,
                            created |-> r.created, audio_size |-> r.audio_size,
                              voice_id |-> r.voice_id]
                /\ UNCHANGED <<knowledge, conversations, clock, probe>>

\* src/bot.py: handle_callback with the data "generate_voice"
BotGenerateVoice ==
    \E user_id \in UserIds, vl \in VoiceLists :
        LET r == callback_generate_voice(vl)
        IN  /\ requests < MaxRequests
            /\ requests' = requests + 1
            /\ last' = [op |-> "handle_callback", front |-> "bot", user_id |-> user_id,
                        data |-> "generate_voice", voice_id |-> "",
                        replies |-> r.replies, calls |-> r.calls, created |-> {}]
            /\ UNCHANGED <<knowledge, conversations, clock, tmpfiles, user_states, probe>>

\* src/bot.py: handle_callback with the data "select_voice_<id>"
BotSelectVoice ==
    \E user_id \in UserIds, voice_id \in VoiceIds :
        LET r == callback_select_voice(user_states, user_id, voice_id)
        IN  /\ requests < MaxRequests
            /\ requests' = requests + 1
            /\ user_states' = r.states
            /\ last' = [op |-> "handle_callback", front |-> "bot", user_id |-> user_id,
                        data |-> "select_voice", voice_id |-> voice_id,
                        replies |-> r.replies, calls |-> <<>>, created |-> {}]
            /\ UNCHANGED <<knowledge, conversations, clock, tmpfiles, probe>>

\* the button of the one custom voice of VoiceLists is pressed
BotSelectOfferedVoice == BotSelectVoice /\ last'.voice_id = "v2"

NextBot ==
    \/ HandleMessage
    \/ HandleVoiceMessage
    \/ HandleAudioMessage
    \/ BotHandleMessage
    \/ BotHandleVoiceMessage
    \/ BotHandleAudioMessage
    \/ BotGenerateVoice
    \/ BotSelectOfferedVoice

SpecBot == Init /\ [][NextBot]_vars

\* The events of src/bot.py alone, with every voice id a callback can carry.
NextSessions ==
    \/ BotHandleMessage
    \/ BotHandleVoiceMessage
    \/ BotHandleAudioMessage
    \/ BotGenerateVoice
    \/ BotSelectVoice

SpecSessions == Init /\ [][NextSessions]_vars

----------------------------------------------------------------------------
\* Adding entries and searching for a title with the default limit.

\* search_knowledge(query, limit=5)
DefaultLimit == 5

\* entries whose titles occur in each other's title or content
TitledInputs ==
    { [title |-> <<"b">>, content |-> <<"a","b">>],
      [title |-> <<"A","b">>, content |-> <<"b","a">>] }

\* the title searched for
TitleQueries == {<<"b">>}

\* The same as Init, with the query a title and the limit the default.
InitTitled ==
    /\ knowledge = <<>>
    /\ conversations = <<>>
    /\ clock = 0
    /\ tmpfiles = {}
    /\ user_states = <<>>
    /\ requests = 0
    /\ probe \in [query : TitleQueries, limit : {DefaultLimit}]
    /\ last = [op |-> "init"]

\* add_knowledge(title, content), in the second of the previous call or in
\* the next one; no more than MaxPerSecond calls are made in one second
AddTitled ==
    \E e \in TitledInputs, now \in {clock, clock + 1} :
        /\ Len(knowledge) < MaxTitled
        /\ Cardinality({i \in 1..Len(knowledge) : knowledge[i].updated_at = now}) < MaxPerSecond
        /\ clock' = now
        /\ knowledge' = Append(knowledge,
               KnowledgeRow(Len(knowledge) + 1, now, e.title, e.content, None, NoTags))
        /\ last' = [op |-> "add_knowledge", title |-> e.title, content |-> e.content,
                    category |-> None, tags |-> NoTags, id |-> Len(knowledge) + 1]
        /\ UNCHANGED <<conversations, tmpfiles, user_states, requests, probe>>

NextTitled == AddTitled \/ SearchKnowledge

SpecTitled == InitTitled /\ [][NextTitled]_vars

----------------------------------------------------------------------------
\* Adding entries with tags and reading them back.

\* the tags argument: absent, empty, plain tags, and tags with the characters
\* JSON escapes or separates with, next to an empty tag
TagInputs ==
    { NoTags,
      <<>>,
      << <<"r","l">>, <<"a","i">> >>,
      << <<"a",",","\"","\\","]">>, <<>> >> }

\* add_knowledge(title, content, tags=tags)
AddTagged ==
    \E tags \in TagInputs :
        /\ Len(knowledge) < MaxKnowledge
        /\ knowledge' = Append(knowledge,
               KnowledgeRow(Len(knowledge) + 1, clock, <<"A","b">>, <<"b","a">>, None, tags))
        /\ last' = [op |-> "add_knowledge", title |-> <<"A","b">>, content |-> <<"b","a">>,
                    category |-> None, tags |-> tags, id |-> Len(knowledge) + 1]
        /\ UNCHANGED <<conversations, clock, tmpfiles, user_states, requests, probe>>

NextTags == Tick \/ AddTagged \/ SearchKnowledge \/ GetAllKnowledge

SpecTags == Init /\ [][NextTags]_vars

----------------------------------------------------------------------------
\* The rule-based answers of src/ai_service.py over a set of messages.

RuleInputs ==
    { <<"H","e","l","l","o">>, <<"O","h"," ","H","E","L","L","O","!">>, <<"h","i">>,
      <<"t","h","i","s">>, <<"W","h","i","c","h","?">>, <<"o","k">>, <<"T","h","a","n","k","s">>,
      <<"b","y","e">>, <<"n","o"," ","h","i","n","t">>, <<"a","b">>, <<>> }

InitRules ==
    /\ knowledge = <<>>
    /\ conversations = <<>>
    /\ clock = 0
    /\ tmpfiles = {}
    /\ user_states = <<>>
    /\ requests = 0
    /\ probe \in [query : RuleInputs, limit : {KnowledgeLimit}]
    /\ last = [op |-> "init"]

NextRules == AddKnowledge \/ SimpleGenerateResponse \/ SimpleSpeechToSpeech

SpecRules == InitRules /\ [][NextRules]_vars

----------------------------------------------------------------------------
\* The prompts of generate_response (ai_service.py) over a growing store.

\* a question no entry matches, a question entry 2 matches, and a question
\* that quotes the heading of the context block
PromptQueries ==
    { QueryRL,
      <<"R","L">>,
      <<"R","e","l","e","v","a","n","t"," ","A","I"," ","k","n","o","w","l","e","d","g","e","?">> }

InitPrompt ==
    /\ knowledge = <<>>
    /\ conversations = <<>>
    /\ clock = 0
    /\ tmpfiles = {}
    /\ user_states = <<>>
    /\ requests = 0
    /\ probe \in [query : PromptQueries, limit : {KnowledgeLimit}]
    /\ last = [op |-> "init"]

NextPrompt == AddKnowledge \/ ServiceGenerateResponse

SpecPrompt == InitPrompt /\ [][NextPrompt]_vars

----------------------------------------------------------------------------
\* The voice and audio flows, one awaited call per step.
\*
\* The library runs one handler at a time; inside a handler every await is a
\* point where the call returns or raises.  The flow in progress is kept in
\* last: handler, req (its number), pc (the call it waits for), replies and
\* calls so far, files (the temporary files that exist), text (the answer of
\* speech_to_speech) and audio_size (the size of the converted file).

FlowHandlers == {"bot_voice", "bot_audio", "kb_voice", "kb_audio"}

\* src/bot.py's convert_voice_to_voice, or telegram_bot.py's handlers
IsBotFlow(h) == h \in {"bot_voice", "bot_audio"}
IsVoiceFlow(h) == h \in {"bot_voice", "kb_voice"}

FlowTerminal == {"delivered", "aborted"}

InFlow == last.op = "flow" /\ last.pc \notin FlowTerminal

FlowInput(l) == TempFile(l.req, IF IsVoiceFlow(l.handler) THEN "ogg" ELSE "audio")

\* the message of the except branch of the handler
FlowErrorReplies(h) ==
    IF IsBotFlow(h) THEN <<TextReply(SorryConvertError), TextReply(ClickToGenerate)>>
    ELSE IF h = "kb_voice" THEN <<TextReply(SorryVoiceError)>>
    ELSE <<TextReply(SorryAudioError)>>

\* the files the clean-up at the end of the try block removes
FlowCleaned(l) ==
    IF IsBotFlow(l.handler)
    THEN {IF IsVoiceFlow(l.handler) THEN TempFile(l.req, "wav") ELSE FlowInput(l),
          TempFile(l.req, "mp3")}
    ELSE l.files

Unchanged_flow == UNCHANGED <<knowledge, conversations, clock, user_states, probe>>

\* the handler goes on to the next call
FlowGoes(pc, replies, calls, files) ==
    /\ last' = [last EXCEPT !.pc = pc, !.replies = @ \o replies, !.calls = @ \o calls,
                            !.files = files]
    /\ UNCHANGED <<tmpfiles, requests>>
    /\ Unchanged_flow

\* the handler returns: the files it leaves stay in the temporary directory
FlowEnds(pc, replies, calls, files) ==
    /\ last' = [last EXCEPT !.pc = pc, !.replies = @ \o replies, !.calls = @ \o calls,
                            !.files = files]
    /\ tmpfiles' = tmpfiles \cup files
    /\ UNCHANGED requests
    /\ Unchanged_flow

\* a voice or audio message arrives and its handler starts
FlowStart ==
    \E h \in FlowHandlers :
        /\ ~InFlow
        /\ requests < MaxRequests
        /\ requests' = requests + 1
        /\ last' = [op |-> "flow", handler |-> h, req |-> requests + 1, pc |-> "get_file",
                    replies |-> <<>>, calls |-> <<>>, files |-> {}, text |-> <<>>,
                    audio_size |-> 0]
        /\ UNCHANGED tmpfiles
        /\ Unchanged_flow

\* await context.bot.get_file(...)
FlowGetFile ==
    /\ InFlow /\ last.pc = "get_file"
    /\ \E ok \in BOOLEAN :
          FlowGoes(IF ok THEN "download" ELSE "except", <<>>, <<>>, last.files)

\* NamedTemporaryFile(...); await file.download_to_drive(...)
FlowDownload ==
    /\ InFlow /\ last.pc = "download"
    /\ \E ok \in BOOLEAN :
          FlowGoes(IF ~ok THEN "except"
                   ELSE IF IsVoiceFlow(last.handler) THEN "to_wav" ELSE "process",
                   <<>>, <<>>, last.files \cup {FlowInput(last)})

\* NamedTemporaryFile(suffix='.wav'); convert_ogg_to_wav; on False one reply and return
FlowToWav ==
    /\ InFlow /\ last.pc = "to_wav"
    /\ LET files == last.files \cup {TempFile(last.req, "wav")}
       IN  IF IsBotFlow(last.handler)
           THEN \E ffmpeg_ok \in BOOLEAN :
                   IF ffmpeg_convert_ogg_to_wav(ffmpeg_ok)
                   THEN FlowGoes("process", <<>>, <<>>, files)
                   ELSE FlowEnds("aborted", <<TextReply(SorryAudioFileShort)>>, <<>>, files)
           ELSE IF convert_ogg_to_wav
                THEN FlowGoes("process", <<>>, <<>>, files)
                ELSE FlowEnds("aborted", <<TextReply(SorryAudioFile)>>, <<>>, files)

\* src/bot.py: voice_to_voice, then the else branch and the clean-up when it
\* returned ""
FlowConvert ==
    /\ InFlow /\ last.pc = "process" /\ IsBotFlow(last.handler)
    /\ \E conv \in ConvOutcomes :
          LET v == voice_to_voice(TRUE, conv)
              files == last.files \cup {TempFile(last.req, "mp3")}
          IN  IF Truthy(v.ret)
              THEN /\ last' = [last EXCEPT !.pc = "send", !.calls = @ \o v.calls,
                                           !.files = files, !.audio_size = v.size]
                   /\ UNCHANGED <<tmpfiles, requests>>
                   /\ Unchanged_flow
              ELSE FlowEnds("aborted",
                            <<TextReply(SorryConvert), TextReply(ClickToGenerate)>>,
                            v.calls, files \ FlowCleaned(last))

\* telegram_bot.py: speech_to_speech, then the else branch and the clean-up
\* when it returned ""
FlowSpeechToSpeech ==
    /\ InFlow /\ last.pc = "process" /\ ~IsBotFlow(last.handler)
    /\ \E text \in Texts : \E stt \in SttOutcomes(text) :
        \E gen \in Drawn(Truthy(speech_to_text(stt).ret), GenOutcomes, NoGen),
           tts \in Drawn(Truthy(speech_to_text(stt).ret), TtsOutcomes, NoTts) :
          \E items \in search_knowledge(knowledge, speech_to_text(stt).ret, KnowledgeLimit) :
            LET s == speech_to_speech(conversations, clock, items, stt, gen, tts)
                files == last.files \cup {TempFile(last.req, "mp3")}
            IN  IF Truthy(s.ret)
                THEN /\ last' = [last EXCEPT !.pc = "transcribe_again",
                                             !.calls = @ \o s.calls, !.files = files,
                                             !.text = s.ret]
                     /\ UNCHANGED <<tmpfiles, requests>>
                     /\ Unchanged_flow
                ELSE FlowEnds("aborted",
                              <<TextReply(IF last.handler = "kb_voice" THEN SorryVoiceMessage
                                          ELSE SorryAudioMessage)>>,
                              s.calls, {})

\* telegram_bot.py: speech_to_text once more, the transcript and the answer
\* are sent as text
FlowTranscribeAgain ==
    /\ InFlow /\ last.pc = "transcribe_again"
    /\ \E text \in Texts : \E stt_again \in SttOutcomes(text) :
          LET again == speech_to_text(stt_again)
              emoji == IF last.handler = "kb_voice" THEN MicEmoji ELSE NoteEmoji
          IN  FlowGoes("send",
                       <<TextReply(<<emoji>> \o YouSaid \o again.ret), TextReply(last.text)>>,
                       again.calls, last.files)

\* await context.bot.send_audio(...), then the button of src/bot.py and the
\* clean-up; an empty file is refused
FlowSend ==
    /\ InFlow /\ last.pc = "send"
    /\ \E send_ok \in BOOLEAN :
          IF send_ok /\ (IsBotFlow(last.handler) => last.audio_size > 0)
          THEN FlowEnds("delivered",
                        IF IsBotFlow(last.handler)
                        THEN <<AudioReply(TempFile(last.req, "mp3")), TextReply(ClickToGenerate)>>
                        ELSE <<AudioReply(TempFile(last.req, "mp3"))>>,
                        <<>>, last.files \ FlowCleaned(last))
          ELSE FlowGoes("except", <<>>, <<>>, last.files)

\* mutant of FlowExcept: the exception is logged and nothing is sent
FlowExcept_Silent ==
    /\ InFlow /\ last.pc = "except"
    /\ FlowEnds("aborted", <<>>, <<>>, last.files)

\* except Exception: the failure message, no clean-up
FlowExcept ==
    /\ InFlow /\ last.pc = "except"
    /\ FlowEnds("aborted", FlowErrorReplies(last.handler), <<>>, last.files)

FlowStep ==
    \/ FlowGetFile
    \/ FlowDownload
    \/ FlowToWav
    \/ FlowConvert
    \/ FlowSpeechToSpeech
    \/ FlowTranscribeAgain
    \/ FlowSend
    \/ FlowExcept

NextFlow == FlowStart \/ FlowStep

\* an awaited call returns or raises, and the handler is resumed
FairFlow == WF_vars(FlowStep)

SpecFlow == Init /\ [][NextFlow]_vars /\ FairFlow

----------------------------------------------------------------------------
\* get_relevant_knowledge over a store of entries that match the query.

\* AIService.get_relevant_knowledge(query) of ai_service.py
ServiceGetRelevantKnowledge ==
    \E items \in search_knowledge(knowledge, probe.query, KnowledgeLimit) :
        /\ last' = [op |-> "get_relevant_knowledge", query |-> probe.query, items |-> items,
                    ret |-> get_relevant_knowledge(items)]
        /\ UNCHANGED conversations
        /\ Unchanged_service

\* the store grows to one entry more than the digest can hold
AddDigested == Len(knowledge) < MaxDigested /\ AddTitled

NextDigest == AddDigested \/ ServiceGetRelevantKnowledge

SpecDigest == InitTitled /\ [][NextDigest]_vars

----------------------------------------------------------------------------
\* Helpers of the properties of AIService.

StartsWith(s, p) == Len(s) >= Len(p) /\ SubSeq(s, 1, Len(p)) = p

\* the operation called the provider p
Called(calls, p) == \E k \in 1..Len(calls) : calls[k].p = p

\* a call of the operation to the provider p failed
FailedCall(calls, p) == \E k \in 1..Len(calls) : calls[k].p = p /\ ~calls[k].ok

AnyFailedCall(calls) == \E k \in 1..Len(calls) : ~calls[k].ok

\* the word every excuse of the front-ends begins with
SorryWord == <<"S","o","r","r","y">>

\* the phrase "Relevant AI knowledge"
RelevantAIKnowledge == SubSeq(RelevantHeader, 1, 21)

----------------------------------------------------------------------------
\* C2

\* C2: when the store holds one entry titled "Reinforcement Learning" and
\* generate_response (provider-backed) is called with "What is reinforcement
\* learning?", the user prompt sent to the provider contains "Relevant AI
\* knowledge" and that entry's content.
C2_PromptCarriesTheEntry ==
    ( /\ last.op = "generate_response"
      /\ last.service = "provider"
      /\ last.user_message = QueryRL
      /\ Len(knowledge) = 1
      /\ knowledge[1].title = TitleRL )
    => ( /\ Contains(last.prompt, RelevantAIKnowledge)
         /\ Contains(last.prompt, knowledge[1].content) )

----------------------------------------------------------------------------
\* C4

\* C4: in speech_to_speech (both variants), when the transcription yields the
\* empty string the operation returns "" and has called neither the
\* text-generation provider nor the synthesis provider.
C4_EmptyTranscriptStopsTheFlow ==
    (last.op = "speech_to_speech" /\ last.transcript = <<>>)
    => ( /\ last.ret = <<>>
         /\ ~Called(last.calls, "generate")
         /\ ~Called(last.calls, "synthesize") )

\* C4 witness: the provider-backed speech_to_speech ran on audio whose
\* transcription succeeded with an empty text.
C4_Witness ==
    /\ last.op = "speech_to_speech"
    /\ last.service = "provider"
    /\ last.stt.ok
    /\ last.transcript = <<>>
    /\ last.calls = <<Call("transcribe", TRUE)>>

----------------------------------------------------------------------------
\* C5

\* C5: after any sequence of generate_response calls every conversation
\* record has a non-empty message, a non-empty response and a user id; a call
\* without a user id writes no record and raises no error.
C5_RecordsAreComplete ==
    /\ \A i \in 1..Len(conversations) :
          /\ Truthy(conversations[i].message)
          /\ Truthy(conversations[i].response)
          /\ conversations[i].user_id \in UserIds
    /\ (last.op = "generate_response" /\ last.user_id = NoUser)
          => (~last.saved /\ ~last.raised)

----------------------------------------------------------------------------
\* C9

\* C9: a failed provider call (transcription, synthesis, voice listing, voice
\* conversion, text generation) never leaves the AIService operation as an
\* exception: speech_to_text, voice_to_voice, fallback_voice_conversion and
\* speech_to_speech return "", text_to_speech returns False,
\* get_available_voices returns [], and generate_response returns the apology
\* (which speech_to_speech passes on when only the generation failed).
C9_ProviderFailuresAreContained ==
    (last.op /= "init" /\ AnyFailedCall(last.calls))
    => ( /\ ~last.raised
         /\ CASE last.op = "text_to_speech" -> last.ret = FALSE
              [] last.op = "generate_response" -> StartsWith(last.ret, ApologyPrefix)
              [] last.op = "speech_to_speech" ->
                    IF FailedCall(last.calls, "transcribe") \/ FailedCall(last.calls, "synthesize")
                    THEN last.ret = <<>>
                    ELSE StartsWith(last.ret, ApologyPrefix)
              [] OTHER -> last.ret = <<>> )

\* C9 witness: one operation per provider returned its failure value after
\* the call failed; here text_to_speech after a failed synthesis.
C9_Witness ==
    /\ last.op = "text_to_speech"
    /\ FailedCall(last.calls, "synthesize")
    /\ last.ret = FALSE
    /\ ~last.raised

----------------------------------------------------------------------------
\* C3

\* C3: whichever way a voice, audio or text-to-speech flow of either front-end
\* ends, every temporary audio file it created has been deleted when the
\* handler returns.
C3_HandlersLeaveNoTemporaryFile ==
    last.op \in {"handle_message", "handle_voice_message", "handle_audio_message"}
        => \A f \in last.created : f \notin tmpfiles

----------------------------------------------------------------------------
\* C8

\* C8: no text delivered to the user contains the error text of the
\* text-generation provider.
C8_NoProviderErrorTextInReplies ==
    (last.op = "handle_message" /\ last.front = "telegram_bot" /\ ~last.gen.ok)
        => \A k \in 1..Len(last.replies) : ~Contains(last.replies[k].text, last.gen.error)

----------------------------------------------------------------------------
\* C10

\* C10: in every flow each provider is called at most once, no provider is
\* called after a call that failed, and after a failed call the user gets a
\* failure message instead of a normal reply (no audio, every text an excuse).
C10_OneCallPerProviderAndFirstFailureEnds ==
    (last.op \in {"handle_message", "handle_voice_message", "handle_audio_message",
                  "handle_callback"})
    => ( /\ \A j, k \in 1..Len(last.calls) : j < k => last.calls[j].p /= last.calls[k].p
         /\ \A k \in 1..Len(last.calls) : ~last.calls[k].ok => k = Len(last.calls)
         /\ AnyFailedCall(last.calls) =>
               \A k \in 1..Len(last.replies) :
                  /\ last.replies[k].kind /= "audio"
                  /\ last.replies[k].kind = "text" =>
                        \/ StartsWith(last.replies[k].text, SorryWord)
                        \/ last.replies[k].text = ClickToGenerate )

----------------------------------------------------------------------------
\* C11

\* the handler of telegram_bot.py answered: a text message got the generated
\* reply, a voice or audio message got its transcript, the reply and the audio
Answered(l) ==
    /\ l.op \in {"handle_message", "handle_voice_message", "handle_audio_message"}
    /\ l.front = "telegram_bot"
    /\ l.gen.ok
    /\ IF l.op = "handle_message"
       THEN l.replies = <<TextReply(l.gen.content)>>
       ELSE \E k \in 1..Len(l.replies) : l.replies[k].kind = "audio"

\* C11: every completed exchange that carries text (a text message answered,
\* a voice or audio message transcribed and answered) adds exactly one
\* conversation record, holding the generated reply; no exchange adds more.
C11_OneRecordPerAnsweredExchange ==
    [][ /\ Len(conversations') <= Len(conversations) + 1
        /\ Answered(last') =>
              /\ Len(conversations') = Len(conversations) + 1
              /\ conversations'[Len(conversations')].response = last'.gen.content ]_vars

----------------------------------------------------------------------------
\* C12

\* C12: search_knowledge returns at most limit entries, for every query and
\* every integer limit, 0 and negative ones included (none for those).
C12_SearchReturnsAtMostLimit ==
    Searched => Len(last.result) <= (IF last.limit < 0 THEN 0 ELSE last.limit)

----------------------------------------------------------------------------
\* C13

\* C13: in every result of search_knowledge and get_all_knowledge an entry
\* added later precedes an entry added earlier, also when both were added in
\* the same second.
C13_LaterEntriesFirst ==
    last.op \in {"search_knowledge", "get_all_knowledge"}
        => \A j, k \in 1..Len(last.result) : j < k => last.result[j].id > last.result[k].id

----------------------------------------------------------------------------
\* C14

\* the result holds an entry with the title and content of row i
Returned(i) ==
    \E k \in 1..Len(last.result) :
        /\ last.result[k].title = knowledge[i].title
        /\ last.result[k].content = knowledge[i].content

\* C14 (as amended): after add_knowledge(title, content), a search for the
\* title with the default limit returns an entry with that title and content
\* as long as no more than limit stored entries match the title.
C14_AddedEntryIsFoundWhenMatchesFit ==
    (Searched /\ last.limit = DefaultLimit
              /\ Cardinality(FoldedMatches(last.query)) <= DefaultLimit)
    => \A i \in 1..Len(knowledge) : knowledge[i].title = last.query => Returned(i)

\* C14 (as claimed): ... whatever entries the store already holds or receives
\* afterwards.
C14_AddedEntryIsAlwaysFound ==
    (Searched /\ last.limit = DefaultLimit)
    => \A i \in 1..Len(knowledge) : knowledge[i].title = last.query => Returned(i)

\* C14 witness: five entries match the title searched for, one of them with
\* that title and another content than the others, and all five are returned.
C14_Witness ==
    /\ Searched
    /\ last.query = <<"b">>
    /\ Cardinality(FoldedMatches(last.query)) = DefaultLimit
    /\ Len(last.result) = DefaultLimit
    /\ Cardinality({i \in 1..Len(knowledge) : knowledge[i].title = <<"b">>}) = 1
    /\ \A i \in 1..Len(knowledge) : knowledge[i].title = last.query => Returned(i)

----------------------------------------------------------------------------
\* C15

\* the entry just added is read back with the tags t
ReadBackWith(l, r, t) ==
    (l.op = "add_knowledge" /\ r.op \in {"search_knowledge", "get_all_knowledge"})
    => \A k \in 1..Len(r.result) : r.result[k].id = l.id => r.result[k].tags = t

\* C15 (as amended): a read of an entry through search_knowledge or
\* get_all_knowledge returns the tag sequence given to add_knowledge, element
\* for element and in order; an absent value (None) is read back as the empty
\* sequence.
C15_TagsReadBackAbsentAsEmpty ==
    [][ReadBackWith(last, last', IF last.tags = NoTags THEN <<>> ELSE last.tags)]_vars

\* C15 (as claimed): ... returns the same tags, also for an absent value.
C15_TagsReadBackUnchanged ==
    [][ReadBackWith(last, last', last.tags)]_vars

\* C15 witness: an entry was read back whose tags hold a comma, a quote, a
\* backslash and a bracket, followed by an empty tag.
C15_Witness ==
    /\ last.op \in {"search_knowledge", "get_all_knowledge"}
    /\ \E k \in 1..Len(last.result) :
          last.result[k].tags = << <<"a",",","\"","\\","]">>, <<>> >>

----------------------------------------------------------------------------
\* C16

IsLetter(c) == Lower(c) \in {"a","b","c","d","e","f","g","h","i","j","k","l","m","n","o","p","q","r","s","t","u","v","w","x","y","z"}

\* the phrase occurs in the text, in any letter case, with no letter directly
\* before or after it
ContainsWord(text, phrase) ==
    LET t == LowerText(text)
    IN  \E i \in 1..(Len(t) - Len(phrase) + 1) :
            /\ SubSeq(t, i, i + Len(phrase) - 1) = phrase
            /\ (i > 1 => ~IsLetter(t[i - 1]))
            /\ (i + Len(phrase) <= Len(t) => ~IsLetter(t[i + Len(phrase)]))

FixedPhrases ==
    { HelloWord, HiWord, HowAreYouPhrase, WhatCanYouDoPhrase, ThankYouPhrase, ThanksWord,
      ByeWord, GoodbyeWord }

RuleAnswered == last.op = "generate_response" /\ last.service = "simple"

\* C16: under the rule-based strategy an input that contains "hello" in any
\* letter case is answered with the greeting, and an input that contains none
\* of the fixed phrases as a word or phrase is answered with the echo template
\* around the input as given.
C16_HelloGreetsAndUnmatchedEchoes ==
    RuleAnswered =>
        /\ Contains(LowerText(last.user_message), HelloWord) => last.ret = GreetingReply
        /\ (\A p \in FixedPhrases : ~ContainsWord(last.user_message, p))
              => last.ret = Concat(<<EchoPrefix, last.user_message, EchoSuffix>>)

----------------------------------------------------------------------------
\* C17

\* generate_response of ai_service.py ran and its search returned no entry
AskedWithoutContext ==
    last.op = "generate_response" /\ last.service = "provider" /\ last.items = <<>>

\* C17 (as amended): whenever search_knowledge returns no entry for the query,
\* the user prompt sent to the provider is exactly "User question: " followed
\* by the query; it contains "Relevant AI knowledge" only when the query
\* itself does.
C17_PromptIsTheQuestionAlone ==
    AskedWithoutContext =>
        /\ last.prompt = QuestionPrefix \o last.user_message
        /\ Contains(last.prompt, RelevantAIKnowledge)
              <=> Contains(last.user_message, RelevantAIKnowledge)

\* C17 (as claimed): ... the prompt contains "User question: " followed by the
\* query and does not contain "Relevant AI knowledge".
C17_PromptNeverNamesTheContext ==
    AskedWithoutContext =>
        /\ Contains(last.prompt, QuestionPrefix \o last.user_message)
        /\ ~Contains(last.prompt, RelevantAIKnowledge)

\* C17 witness: the store holds an entry, the search for "What is
\* reinforcement learning?" returned none, and the provider was asked.
C17_Witness ==
    /\ AskedWithoutContext
    /\ knowledge /= <<>>
    /\ last.user_message = QueryRL
    /\ last.calls = <<Call("generate", TRUE)>>

----------------------------------------------------------------------------
\* C18

\* a voice or audio message was handled by src/bot.py
DirectFlow(l) ==
    l.op \in {"handle_voice_message", "handle_audio_message"} /\ l.front = "bot"

\* the handler sent the converted audio
AudioSent(l) == \E k \in 1..Len(l.replies) : l.replies[k].kind = "audio"

----------------------------------------------------------------------------
\* C19

\* C19: under the provider-backed strategy, whenever the text-generation call
\* succeeds, generate_response returns exactly the text the provider produced,
\* with a user id and without one.
C19_ProviderOutputIsReturnedVerbatim ==
    ( /\ last.op = "generate_response"
      /\ last.service = "provider"
      /\ last.gen.ok )
    => ( /\ last.ret = last.gen.content
         /\ last.calls = <<Call("generate", TRUE)>>
         /\ ~last.raised )

\* C19 witness: the provider answered a question asked with a user id, the
\* answer was returned and the exchange saved.
C19_Witness ==
    /\ last.op = "generate_response"
    /\ last.service = "provider"
    /\ last.user_id = <<1>>
    /\ last.gen.ok
    /\ last.gen.content = AnswerText
    /\ last.ret = AnswerText
    /\ last.saved

----------------------------------------------------------------------------
\* C20

\* C20: the direct voice-to-voice flow of src/bot.py never calls transcription
\* or synthesis; the only provider call it makes is the conversion, and when
\* that call fails the flow ends with the fixed failure message and the
\* "Click to Generate" button, with no transcribe-then-synthesize fallback.
C20_DirectFlowHasNoTextFallback ==
    DirectFlow(last) =>
        /\ ~Called(last.calls, "transcribe")
        /\ ~Called(last.calls, "synthesize")
        /\ FailedCall(last.calls, "convert") =>
              /\ last.calls = <<Call("convert", FALSE)>>
              /\ last.replies = <<TextReply(SorryConvert), TextReply(ClickToGenerate)>>

\* C20 witness: an audio message reached the conversion call, which failed.
C20_Witness ==
    /\ last.op = "handle_audio_message"
    /\ last.front = "bot"
    /\ last.calls = <<Call("convert", FALSE)>>
    /\ ~AudioSent(last)

----------------------------------------------------------------------------
\* C21

\* the user u has a session with a selected voice
HasSelection(states, u) == u \in DOMAIN states /\ states[u].selected_voice /= ""

\* the step is a text, voice or audio request of src/bot.py by a user who has
\* a selected voice: the request is served with the session
ServedWithSession ==
    /\ last'.op \in {"handle_message", "handle_voice_message", "handle_audio_message"}
    /\ last'.front = "bot"
    /\ HasSelection(user_states, last'.user_id)

\* C21: when a text-to-speech request or a voice-to-voice conversion request
\* that uses a user's voice selection has finished, successfully or not,
\* user_states holds no entry for that user.
C21_SessionIsClearedWhenTheRequestCompletes ==
    [][ServedWithSession => last'.user_id \notin DOMAIN user_states']_vars

----------------------------------------------------------------------------
\* C22

\* a voice or audio message was handled by telegram_bot.py and the audio sent
SpeechDelivered ==
    /\ last.op \in {"handle_voice_message", "handle_audio_message"}
    /\ last.front = "telegram_bot"
    /\ AudioSent(last)

\* the text given to text_to_speech by speech_to_speech: the return value of
\* generate_response
SynthesizedText ==
    IF last.gen.ok THEN last.gen.content ELSE ApologyPrefix \o last.gen.error

\* C22: in a delivered voice-in to text+voice-out flow the user gets three
\* replies, the transcript, the reply text and the audio; the transcript shown
\* is the one the reply was generated from and the reply text shown is the
\* text that was synthesized.
C22_ShownTranscriptIsTheOneAnswered ==
    SpeechDelivered =>
        /\ Len(last.replies) = 3
        /\ last.replies[1].kind = "text"
        /\ last.replies[1].text
              = <<IF last.op = "handle_voice_message" THEN MicEmoji ELSE NoteEmoji>>
                \o YouSaid \o last.transcript
        /\ last.replies[2] = TextReply(SynthesizedText)
        /\ last.replies[3].kind = "audio"

----------------------------------------------------------------------------
\* C23

\* C23: a voice message to telegram_bot.py whose file was fetched and for
\* which no provider call failed ends with the reply audio sent to the user.
C23_VoiceMessageIsDelivered ==
    ( /\ last.op = "handle_voice_message"
      /\ last.front = "telegram_bot"
      /\ last.fetch = "ok"
      /\ ~AnyFailedCall(last.calls) )
    => AudioSent(last)

----------------------------------------------------------------------------
\* C24

FlowEnded == last.op = "flow" /\ last.pc \in FlowTerminal

\* a reply of the flow is a failure message
Excused(l) ==
    \E k \in 1..Len(l.replies) :
        l.replies[k].kind = "text" /\ StartsWith(l.replies[k].text, SorryWord)

----------------------------------------------------------------------------
\* C25

Digested == last.op = "get_relevant_knowledge"

EndsWith(s, p) == Len(s) >= Len(p) /\ SubSeq(s, Len(s) - Len(p) + 1, Len(s)) = p

\* the line that closes a block: fifty dashes
RuleLine == [i \in 1..50 |-> "-"] \o Newline

\* where the block of the k-th entry ends in the digest
RECURSIVE BlockEnd(_, _)
BlockEnd(items, k) ==
    IF k = 0 THEN Len(RelevantHeader) ELSE BlockEnd(items, k - 1) + Len(ItemBlock(items[k]))

DigestBlock(k) == SubSeq(last.ret, BlockEnd(last.items, k - 1) + 1, BlockEnd(last.items, k))

\* C25: get_relevant_knowledge(query) returns "" exactly when
\* search_knowledge(query, 3) returned no entry; otherwise the digest is the
\* heading followed by one block per returned entry, at most three, in the
\* order of the result, each block naming its entry's title and content and
\* ending with the line of dashes.
C25_DigestHasOneBlockPerEntryInOrder ==
    Digested =>
        /\ last.ret = <<>> <=> last.items = <<>>
        /\ Len(last.items) <= 3
        /\ last.items /= <<>> =>
              /\ StartsWith(last.ret, RelevantHeader)
              /\ BlockEnd(last.items, Len(last.items)) = Len(last.ret)
              /\ \A k \in 1..Len(last.items) :
                    /\ StartsWith(DigestBlock(k), Concat(<<TitleLabel, last.items[k].title, Newline>>))
                    /\ Contains(DigestBlock(k), Concat(<<ContentLabel, last.items[k].content, Newline>>))
                    /\ EndsWith(DigestBlock(k), RuleLine)

\* C25 witness: more than three entries match, the digest holds the blocks of
\* three entries, and two of them differ in title.
C25_Witness ==
    /\ Digested
    /\ Len(knowledge) > 3
    /\ Len(last.items) = 3
    /\ last.items[1].title /= last.items[2].title
    /\ last.ret /= <<>>

----------------------------------------------------------------------------
\* C26

\* C26: when the text-generation call fails inside generate_response, the
\* conversation table is left as it was, with a user id and without one, so
\* every user's history after the call is the history before it.
C26_FailedGenerationWritesNoRecord ==
    [][ ( /\ last'.op = "generate_response"
          /\ last'.service = "provider"
          /\ ~last'.gen.ok )
        => ( /\ conversations' = conversations
             /\ \A u \in UserIds :
                   get_user_conversation_history(conversations', <<u>>, -1)
                      = get_user_conversation_history(conversations, <<u>>, -1) ) ]_vars

\* C26 witness: user 1 has a saved exchange, then a call with user id 1 failed
\* at the provider and the apology was returned without being saved.
C26_Witness ==
    /\ last.op = "generate_response"
    /\ last.service = "provider"
    /\ last.user_id = <<1>>
    /\ ~last.gen.ok
    /\ StartsWith(last.ret, ApologyPrefix)
    /\ ~last.saved
    /\ Len(conversations) = 1

----------------------------------------------------------------------------
\* C27

\* the k-th returned record is a stored record of the user the history was
\* asked for
OwnRecord(k) ==
    \E i \in 1..Len(conversations) :
        /\ last.user_id /= NoUser
        /\ conversations[i].user_id = last.user_id[1]
        /\ conversations[i].message = last.result[k].message
        /\ conversations[i].response = last.result[k].response
        /\ conversations[i].timestamp = last.result[k].timestamp

\* C27: after any sequence of save_conversation calls for different users,
\* get_user_conversation_history(u, limit) returns only records saved with
\* the user id u and never more than limit records (none for a limit below 1).
C27_HistoryIsTheUsersOwnAndBounded ==
    last.op = "get_user_conversation_history" =>
        /\ \A k \in 1..Len(last.result) : OwnRecord(k)
        /\ Len(last.result) <= (IF last.limit < 0 THEN 0 ELSE last.limit)

----------------------------------------------------------------------------
\* C28

\* the stores of at most two of the entries, to compare the reached one with
OtherStores ==
    {<<>>}
    \cup { <<KnowledgeRow(1, 0, e.title, e.content, e.category, e.tags)>> : e \in KnowledgeInputs }
    \cup { <<KnowledgeRow(1, 0, e.title, e.content, e.category, e.tags),
             KnowledgeRow(2, 0, f.title, f.content, f.category, f.tags)>>
           : e \in KnowledgeInputs, f \in KnowledgeInputs }

\* C28: under the rule-based strategy the reply of generate_response is the
\* same whatever the knowledge store holds: the call made on the reached
\* store and the same call made on any other store return the same reply,
\* although each call searches its store.
C28_RuleBasedReplyIgnoresTheStore ==
    RuleAnswered =>
        \A other \in OtherStores :
            \A items \in search_knowledge(other, last.user_message, KnowledgeLimit) :
                simple_generate_response(<<>>, clock, items, last.user_message,
                                         last.user_id).ret = last.ret

\* C28 witness: the search for "ab" found an entry of the store and the reply
\* is the echo of the message.
C28_Witness ==
    /\ RuleAnswered
    /\ last.user_message = <<"a","b">>
    /\ last.items /= <<>>
    /\ last.ret = Concat(<<EchoPrefix, last.user_message, EchoSuffix>>)

----------------------------------------------------------------------------
\* C29

\* the provider p was called and every call to it succeeded
Succeeded(calls, p) == Called(calls, p) /\ ~FailedCall(calls, p)

----------------------------------------------------------------------------
\* C30

\* the session entry of the user w is the same before and after the step
SameEntry(w) ==
    /\ (w \in DOMAIN user_states') = (w \in DOMAIN user_states)
    /\ w \in DOMAIN user_states => user_states'[w] = user_states[w]

\* the step handles an event of src/bot.py
BotEvent == last'.op /= "init" /\ last'.front = "bot"

\* C30: in src/bot.py, whatever the order of the events of different users:
\* a synthesis or conversion call is made for user u only if u has a stored
\* voice selection, and with the voice id u selected most recently (a
\* selection stores the chosen id in u's entry, and only u's own events
\* change or remove that entry); handling an event of u never creates,
\* changes or removes the entry of another user.
C30_CallsUseTheUsersOwnLatestSelection ==
    [][ BotEvent =>
          /\ \A w \in UserIds \ {last'.user_id} : SameEntry(w)
          /\ (last'.op = "handle_callback" /\ last'.data = "select_voice")
                => /\ last'.user_id \in DOMAIN user_states'
                   /\ user_states'[last'.user_id].selected_voice = last'.voice_id
          /\ (last'.op = "handle_callback" /\ last'.data = "generate_voice")
                => SameEntry(last'.user_id)
          /\ last'.op /= "handle_callback"
                => /\ SameEntry(last'.user_id) \/ last'.user_id \notin DOMAIN user_states'
                   /\ (Called(last'.calls, "synthesize") \/ Called(last'.calls, "convert"))
                         => /\ HasSelection(user_states, last'.user_id)
                            /\ last'.voice_id = user_states[last'.user_id].selected_voice ]_vars

\* C30 witness: user 1 holds the voice "v2" and user 2 the voice "v3", and a
\* voice message of user 2 was converted with "v3".
C30_Witness ==
    /\ last.op = "handle_voice_message"
    /\ last.front = "bot"
    /\ last.user_id = 2
    /\ last.voice_id = "v3"
    /\ last.calls = <<Call("convert", TRUE)>>
    /\ HasSelection(user_states, 1)
    /\ user_states[1].selected_voice = "v2"

====
